---------------------------- MODULE Spec2Model ----------------------------
(***************************************************************************)
(* A model of the battle engine (class GameEngine and its game-mode        *)
(* strategies).  The engine's fields are the variables; every public       *)
(* entry point (tick, issueCommand, buyUnit, resign, spawnUnitRaw,         *)
(* removeUnitAt, formAlliance, declareWar, handleAllianceRequest,          *)
(* breakAlliance, consumeEvents) is an operator from an engine state to    *)
(* the engine state it leaves, and an action that applies it.              *)
(*                                                                         *)
(* What is bounded: the grid is a BoardSize x BoardSize window of the       *)
(* unbounded grid, a match has a handful of players instead of 100, an     *)
(* army is SmallArmy or KingOnly below instead of 30 pieces, and the       *)
(* virtual clock advances by whole frames up to a horizon.  What is left   *)
(* out: chat, colours, the wave and vault timers, the humanKiller          *)
(* snapshot, and the AI bookkeeping that only feeds the bots' scoring      *)
(* (aiState, aiTargetId, lanes, combat timers); the bots' scored choice    *)
(* of a move is a nondeterministic choice among the legal moves.           *)
(***************************************************************************)
EXTENDS Integers, Sequences, FiniteSets, TLC

(* ------------------------------ bounds -------------------------------- *)
BoardSize == 3
MaxUnitSeq == 5
MaxEvents == 1
StartTime == 10000
Frame == 2000
\* the idle ticks counted per player (none are told apart beyond it)
IdleCap == 5
StdPlayers == 2
DipPlayers == 3
MaxTerrain == 1
LbFallen == 7

(* --------------------------- program constants ------------------------ *)
NoId == 0
\* cachedGameOverStats = null
NoStats == [isNull |-> TRUE]
MoveRange == 8
ProximityThreshold == 80
MaxMergedAlliance == 10
PEACE_DURATION == 30000
KingBounty == 20
LeaderboardSize == 8
CoinValue == 1

ZOMBIE_TEAM_ID == "ZOMBIES"

UnitTypes == {"PAWN", "KNIGHT", "BISHOP", "ROOK", "QUEEN", "KING", "VAULT"}

COOLDOWNS(type) == IF type = "VAULT" THEN 0 ELSE 4000

MATERIAL_VALUES(type) ==
    CASE type = "PAWN" -> 1
      [] type = "KNIGHT" -> 3
      [] type = "BISHOP" -> 3
      [] type = "ROOK" -> 5
      [] type = "QUEEN" -> 9
      [] type = "KING" -> 0
      [] type = "VAULT" -> 50

SHOP_PRICES(type) ==
    CASE type = "PAWN" -> 2
      [] type = "KNIGHT" -> 3
      [] type = "BISHOP" -> 3
      [] type = "ROOK" -> 5
      [] type = "QUEEN" -> 9
      [] type = "KING" -> 9999
      [] type = "VAULT" -> 9999

(* ------------------------------ state --------------------------------- *)
VARIABLES
    gameMode,       \* config.gameMode
    units,          \* Map<string, Unit>: unit id -> Unit
    positionMap,    \* Map<"x,y", unit id>
    players,        \* Map<string, Player>
    playerOrder,    \* the insertion order of the players map
    humanId,
    coins,          \* the keys of the coins map (every coin has value 1)
    terrainMap,     \* Map<"x,y", terrain type>
    eventQueue,
    virtualTime,
    paused,
    peaceTimer,
    aiUpdateIndex,
    isResigned,
    directorPhase,  \* directorState.phase
    directorRules,  \* directorState.infiniteVision, centerGravity, totalWar
    cachedGameOverStats,
    realNow,        \* what Date.now() returns: the wall clock the engine reads
    lastRealTime,
    timeMultiplier,
    unitSeq,        \* how many unit ids have been minted (ids are unique)
    isSimulationRunning  \* the SandboxMode field of that name

vars == <<gameMode, units, positionMap, players, playerOrder, humanId, coins, terrainMap,
          eventQueue, virtualTime, paused, peaceTimer, aiUpdateIndex,
          isResigned, directorPhase, directorRules, cachedGameOverStats, realNow,
          lastRealTime, timeMultiplier, unitSeq, isSimulationRunning>>

\* The engine's state as one record, so that an entry point is a function
\* from states to states.
St == [gameMode |-> gameMode, units |-> units, positionMap |-> positionMap,
       players |-> players, playerOrder |-> playerOrder, humanId |-> humanId, coins |-> coins,
       terrainMap |-> terrainMap, eventQueue |-> eventQueue,
       virtualTime |-> virtualTime, paused |-> paused,
       peaceTimer |-> peaceTimer, aiUpdateIndex |-> aiUpdateIndex,
       isResigned |-> isResigned, directorPhase |-> directorPhase,
       directorRules |-> directorRules,
       cachedGameOverStats |-> cachedGameOverStats, realNow |-> realNow,
       lastRealTime |-> lastRealTime, timeMultiplier |-> timeMultiplier,
       unitSeq |-> unitSeq, isSimulationRunning |-> isSimulationRunning]

Becomes(t) ==
    /\ gameMode' = t.gameMode
    /\ units' = t.units
    /\ positionMap' = t.positionMap
    /\ players' = t.players
    /\ playerOrder' = t.playerOrder
    /\ humanId' = t.humanId
    /\ coins' = t.coins
    /\ terrainMap' = t.terrainMap
    /\ eventQueue' = t.eventQueue
    /\ virtualTime' = t.virtualTime
    /\ paused' = t.paused
    /\ peaceTimer' = t.peaceTimer
    /\ aiUpdateIndex' = t.aiUpdateIndex
    /\ isResigned' = t.isResigned
    /\ directorPhase' = t.directorPhase
    /\ directorRules' = t.directorRules
    /\ cachedGameOverStats' = t.cachedGameOverStats
    /\ realNow' = t.realNow
    /\ lastRealTime' = t.lastRealTime
    /\ timeMultiplier' = t.timeMultiplier
    /\ unitSeq' = t.unitSeq
    /\ isSimulationRunning' = t.isSimulationRunning

(* ------------------------------ helpers ------------------------------- *)
Coord == 0 .. (BoardSize - 1)
Tiles == Coord \X Coord
Key(x, y) == <<x, y>>
InBoard(x, y) == x \in Coord /\ y \in Coord

MapHas(m, k) == k \in DOMAIN m
MapGet(m, k) == IF k \in DOMAIN m THEN m[k] ELSE NoId
MapDelete(m, k) == [j \in (DOMAIN m) \ {k} |-> m[j]]
MapSet(m, k, v) == [j \in (DOMAIN m) \cup {k} |-> IF j = k THEN v ELSE m[j]]

Includes(seq, e) == \E i \in DOMAIN seq : seq[i] = e
Without(seq, e) == SelectSeq(seq, LAMBDA v : v # e)
Elems(seq) == {seq[i] : i \in DOMAIN seq}
Abs(n) == IF n < 0 THEN -n ELSE n
RECURSIVE SumSeq(_)
SumSeq(q) == IF q = <<>> THEN 0 ELSE Head(q) + SumSeq(Tail(q))

Event(type, x, y, meta) == [type |-> type, x |-> x, y |-> y, meta |-> meta]
Push(s, e) == [s EXCEPT !.eventQueue = Append(@, e)]

\* initGame's choice of strategy object
ActiveMode(mode) ==
    CASE mode = "ZOMBIES" -> "ZombieMode"
      [] mode = "DIPLOMACY" -> "DiplomacyMode"
      [] mode = "SANDBOX" -> "SandboxMode"
      [] OTHER -> "StandardMode"

playersRemaining(s) ==
    Cardinality({p \in DOMAIN s.players : ~s.players[p].isEliminated})

getUnitCooldown(s, type) ==
    IF s.gameMode = "BULLET" THEN COOLDOWNS(type) \div 2 ELSE COOLDOWNS(type)

\* Math.hypot(dx, dy) > 80, on integers
FartherThanThreshold(s, p1Id, p2Id) ==
    IF p1Id \notin DOMAIN s.players \/ p2Id \notin DOMAIN s.players THEN TRUE
    ELSE LET dx == s.players[p1Id].centerX - s.players[p2Id].centerX
             dy == s.players[p1Id].centerY - s.players[p2Id].centerY
         IN dx * dx + dy * dy > ProximityThreshold * ProximityThreshold

isAlly(s, p1Id, p2Id) ==
    /\ s.gameMode = "DIPLOMACY"
    /\ p1Id \in DOMAIN s.players
    /\ Includes(s.players[p1Id].allies, p2Id)

isBlocking(tm, x, y) ==
    /\ Key(x, y) \in DOMAIN tm
    /\ tm[Key(x, y)] \in {"WALL", "WATER"}


(* ----------------------------- diplomacy ------------------------------ *)
\* triggerKingFlash: a CONVERSION event at the first King of the roster
triggerKingFlash(s, playerId) ==
    IF playerId \notin DOMAIN s.players THEN s
    ELSE LET roster == s.players[playerId].units
             kings == {i \in DOMAIN roster :
                          /\ roster[i] \in DOMAIN s.units
                          /\ s.units[roster[i]].type = "KING"}
         IN IF kings = {} THEN s
            ELSE LET i == CHOOSE k \in kings : \A j \in kings : k <= j
                     king == s.units[roster[i]]
                 IN Push(s, Event("CONVERSION", king.x, king.y, "flash"))

RECURSIVE Dedup(_)
\* Array.from(new Set(seq)): the first occurrences, in order
Dedup(seq) ==
    IF seq = <<>> THEN <<>>
    ELSE LET front == Dedup(SubSeq(seq, 1, Len(seq) - 1))
             last == seq[Len(seq)]
         IN IF Includes(front, last) THEN front ELSE Append(front, last)

\* A plausible slip: only the two parties are rewritten, not their groups.
formAlliance_PairOnly(s, p1Id, p2Id) ==
    IF \/ p1Id \notin DOMAIN s.players
       \/ p2Id \notin DOMAIN s.players
    THEN s
    ELSE IF s.players[p1Id].isEliminated \/ s.players[p2Id].isEliminated THEN s
    ELSE IF FartherThanThreshold(s, p1Id, p2Id) THEN s
    ELSE LET p1 == s.players[p1Id]
             p2 == s.players[p2Id]
             arr == Dedup(<<p1Id, p2Id>> \o p1.allies \o p2.allies)
             set == Elems(arr)
             s1 == [s EXCEPT !.players =
                      [m \in DOMAIN s.players |->
                          IF m \in {p1Id, p2Id}
                          THEN [s.players[m] EXCEPT
                                  !.allies = Without(arr, m),
                                  !.enemies = SelectSeq(@, LAMBDA e : e \notin set)]
                          ELSE s.players[m]]]
         IN triggerKingFlash(triggerKingFlash(s1, p1Id), p2Id)

\* A plausible slip: the members' enemies lists are not purged.
formAlliance_KeepEnemies(s, p1Id, p2Id) ==
    IF \/ p1Id \notin DOMAIN s.players
       \/ p2Id \notin DOMAIN s.players
    THEN s
    ELSE IF s.players[p1Id].isEliminated \/ s.players[p2Id].isEliminated THEN s
    ELSE IF FartherThanThreshold(s, p1Id, p2Id) THEN s
    ELSE LET p1 == s.players[p1Id]
             p2 == s.players[p2Id]
             arr == Dedup(<<p1Id, p2Id>> \o p1.allies \o p2.allies)
             s1 == [s EXCEPT !.players =
                      [m \in DOMAIN s.players |->
                          IF m \in Elems(arr)
                          THEN [s.players[m] EXCEPT !.allies = Without(arr, m)]
                          ELSE s.players[m]]]
         IN triggerKingFlash(triggerKingFlash(s1, p1Id), p2Id)

formAlliance(s, p1Id, p2Id) ==
    IF \/ p1Id \notin DOMAIN s.players
       \/ p2Id \notin DOMAIN s.players
    THEN s
    ELSE IF s.players[p1Id].isEliminated \/ s.players[p2Id].isEliminated THEN s
    ELSE IF FartherThanThreshold(s, p1Id, p2Id) THEN s
    ELSE LET p1 == s.players[p1Id]
             p2 == s.players[p2Id]
             newAllianceArray == Dedup(<<p1Id, p2Id>> \o p1.allies \o p2.allies)
             newAllianceSet == Elems(newAllianceArray)
             s1 == [s EXCEPT !.players =
                      [m \in DOMAIN s.players |->
                          IF m \in newAllianceSet
                          THEN [s.players[m] EXCEPT
                                  !.allies = Without(newAllianceArray, m),
                                  !.enemies = SelectSeq(@, LAMBDA e : e \notin newAllianceSet)]
                          ELSE s.players[m]]]
         IN triggerKingFlash(triggerKingFlash(s1, p1Id), p2Id)

RECURSIVE AddEnemies(_, _, _, _)
\* one forEach of declareWar: every member of pack, from index i on, pushes
\* the members of otherPack it does not list yet (never itself)
AddEnemies(pl, pack, otherPack, i) ==
    IF i > Len(pack) THEN pl
    ELSE LET id == pack[i]
         IN IF id \notin DOMAIN pl THEN AddEnemies(pl, pack, otherPack, i + 1)
            ELSE LET newEnemies == SelectSeq(otherPack,
                                     LAMBDA d : ~Includes(pl[id].enemies, d) /\ d # id)
                     pl1 == [pl EXCEPT ![id].enemies = @ \o newEnemies]
                 IN AddEnemies(pl1, pack, otherPack, i + 1)

\* A plausible slip: the defenders are not told, only the aggressors' lists
\* are written.
declareWar_OneWay(s, attackerId, victimId) ==
    IF s.gameMode # "DIPLOMACY" THEN s
    ELSE IF attackerId \notin DOMAIN s.players \/ victimId \notin DOMAIN s.players THEN s
    ELSE IF FartherThanThreshold(s, attackerId, victimId) THEN s
    ELSE IF Includes(s.players[attackerId].enemies, victimId) THEN s
    ELSE LET aggressorPack == <<attackerId>> \o s.players[attackerId].allies
             defenderPack == <<victimId>> \o s.players[victimId].allies
             pl1 == AddEnemies(s.players, aggressorPack, defenderPack, 1)
             s1 == [s EXCEPT !.players = pl1]
         IN triggerKingFlash(triggerKingFlash(s1, attackerId), victimId)

declareWar(s, attackerId, victimId) ==
    IF s.gameMode # "DIPLOMACY" THEN s
    ELSE IF attackerId \notin DOMAIN s.players \/ victimId \notin DOMAIN s.players THEN s
    ELSE IF FartherThanThreshold(s, attackerId, victimId) THEN s
    ELSE IF Includes(s.players[attackerId].enemies, victimId) THEN s
    ELSE LET aggressorPack == <<attackerId>> \o s.players[attackerId].allies
             defenderPack == <<victimId>> \o s.players[victimId].allies
             pl1 == AddEnemies(s.players, aggressorPack, defenderPack, 1)
             pl2 == AddEnemies(pl1, defenderPack, aggressorPack, 1)
             s1 == [s EXCEPT !.players = pl2]
         IN triggerKingFlash(triggerKingFlash(s1, attackerId), victimId)

\* accept is the outcome of the Math.random() draws (every branch of the
\* acceptance rule has a probability strictly between 0 and 1)
handleAllianceRequest(s, botId, requesterId, accept) ==
    IF s.gameMode # "DIPLOMACY" THEN s
    ELSE IF botId \notin DOMAIN s.players \/ requesterId \notin DOMAIN s.players THEN s
    ELSE IF s.players[botId].isEliminated \/ s.players[requesterId].isEliminated THEN s
    ELSE IF FartherThanThreshold(s, botId, requesterId) THEN s
    ELSE IF s.players[botId].isHuman THEN s
    ELSE IF 1 + Len(s.players[botId].allies) + 1 + Len(s.players[requesterId].allies)
               > MaxMergedAlliance
         THEN triggerKingFlash(s, botId)
    ELSE IF accept THEN formAlliance(s, botId, requesterId)
    ELSE triggerKingFlash(s, botId)

breakAlliance(s, p1Id, p2Id) == declareWar(s, p1Id, p2Id)


(* ------------------------- game-mode strategies ----------------------- *)
StandardMode_canAttack(s, attacker, target) == attacker.ownerId # target.ownerId

ZombieMode_canAttack(s, attacker, target) == attacker.ownerId # target.ownerId

\* A plausible slip: the armistice test is left out.
DiplomacyMode_canAttack_NoArmistice(s, attacker, target) ==
    IF attacker.ownerId = target.ownerId THEN FALSE
    ELSE IF isAlly(s, attacker.ownerId, target.ownerId) THEN FALSE
    ELSE TRUE

\* A plausible slip: the ally test is left out.
DiplomacyMode_canAttack_NoAllyTest(s, attacker, target) ==
    IF attacker.ownerId = target.ownerId THEN FALSE
    ELSE IF s.peaceTimer > 0 THEN FALSE
    ELSE TRUE

DiplomacyMode_canAttack(s, attacker, target) ==
    IF attacker.ownerId = target.ownerId THEN FALSE
    ELSE IF s.peaceTimer > 0 THEN FALSE
    ELSE IF isAlly(s, attacker.ownerId, target.ownerId) THEN FALSE
    ELSE TRUE

\* this.activeMode.canAttack(unit, target, this)
canAttack(s, attacker, target) ==
    CASE ActiveMode(s.gameMode) = "DiplomacyMode" -> DiplomacyMode_canAttack(s, attacker, target)
      [] ActiveMode(s.gameMode) = "ZombieMode" -> ZombieMode_canAttack(s, attacker, target)
      [] OTHER -> StandardMode_canAttack(s, attacker, target)

\* A plausible slip: only the infection flag is consulted, so a unit that
\* belongs to the zombie team without carrying the flag kills as usual.
ZombieMode_handles_FlagOnly(s, victimId, attackerId) ==
    s.units[attackerId].isZombie

\* the test of ZombieMode.handleDeath: is the attacker a zombie
ZombieMode_handles(s, victimId, attackerId) ==
    s.units[attackerId].isZombie \/ s.units[attackerId].ownerId = ZOMBIE_TEAM_ID

\* A plausible slip: the victim stays on the roster of its old owner.
ZombieMode_handleDeath_KeepRoster(s, victimId, attackerId) ==
    LET victim == s.units[victimId]
        un1 == [s.units EXCEPT ![victimId] =
                   [@ EXCEPT !.ownerId = ZOMBIE_TEAM_ID, !.isZombie = TRUE,
                             !.hp = 1, !.isDead = FALSE]]
        pl2 == IF ZOMBIE_TEAM_ID \in DOMAIN s.players
               THEN [s.players EXCEPT ![ZOMBIE_TEAM_ID].units = Append(@, victimId)]
               ELSE s.players
    IN Push([s EXCEPT !.players = pl2, !.units = un1],
            Event("CONVERSION", victim.x, victim.y, "zombie"))

\* the state ZombieMode.handleDeath leaves when it converts the victim
ZombieMode_handleDeath(s, victimId, attackerId) ==
    LET victim == s.units[victimId]
        oldOwnerId == victim.ownerId
        pl1 == IF oldOwnerId \in DOMAIN s.players
               THEN [s.players EXCEPT ![oldOwnerId].units = Without(@, victimId)]
               ELSE s.players
        un1 == [s.units EXCEPT ![victimId] =
                   [@ EXCEPT !.ownerId = ZOMBIE_TEAM_ID, !.isZombie = TRUE,
                             !.hp = 1, !.isDead = FALSE]]
        pl2 == IF ZOMBIE_TEAM_ID \in DOMAIN pl1
               THEN [pl1 EXCEPT ![ZOMBIE_TEAM_ID].units = Append(@, victimId)]
               ELSE pl1
    IN Push([s EXCEPT !.players = pl2, !.units = un1],
            Event("CONVERSION", victim.x, victim.y, "zombie"))

modeHandlesDeath(s, victimId, attackerId) ==
    /\ ActiveMode(s.gameMode) = "ZombieMode"
    /\ ZombieMode_handles(s, victimId, attackerId)

(* ------------------------- movement and combat ------------------------ *)
\* A plausible slip: add() without its terrain collision check.
add_NoTerrain(s, ownerId, tx, ty) ==
    IF ~InBoard(tx, ty) THEN [moves |-> {}, go |-> FALSE]
    ELSE LET tid == MapGet(s.positionMap, Key(tx, ty))
         IN IF tid # NoId
            THEN IF /\ tid \in DOMAIN s.units
                    /\ s.units[tid].ownerId # ownerId
                    /\ ~isAlly(s, ownerId, s.units[tid].ownerId)
                 THEN [moves |-> {Key(tx, ty)}, go |-> FALSE]
                 ELSE [moves |-> {}, go |-> FALSE]
            ELSE [moves |-> {Key(tx, ty)}, go |-> TRUE]

\* the closure `add` of getValidMoves: the tiles it pushes, and whether a
\* ray may go on past this tile.  A tile outside the window is not offered.
add(s, ownerId, tx, ty) ==
    IF ~InBoard(tx, ty) THEN [moves |-> {}, go |-> FALSE]
    ELSE IF isBlocking(s.terrainMap, tx, ty) THEN [moves |-> {}, go |-> FALSE]
    ELSE LET tid == MapGet(s.positionMap, Key(tx, ty))
         IN IF tid # NoId
            THEN IF /\ tid \in DOMAIN s.units
                    /\ s.units[tid].ownerId # ownerId
                    /\ ~isAlly(s, ownerId, s.units[tid].ownerId)
                 THEN [moves |-> {Key(tx, ty)}, go |-> FALSE]
                 ELSE [moves |-> {}, go |-> FALSE]
            ELSE [moves |-> {Key(tx, ty)}, go |-> TRUE]

\* A plausible slip: the result of add() is ignored and the loop runs on to
\* the full range.
RECURSIVE Ray_NoBreak(_, _, _, _, _, _, _)
Ray_NoBreak(s, ownerId, x, y, dx, dy, i) ==
    IF i > MoveRange THEN {}
    ELSE add(s, ownerId, x + dx * i, y + dy * i).moves
            \cup Ray_NoBreak(s, ownerId, x, y, dx, dy, i + 1)

\* the sliding loop: for (i = 1; i <= range; i++) if (!add(...)) break
RECURSIVE Ray(_, _, _, _, _, _, _)
Ray(s, ownerId, x, y, dx, dy, i) ==
    IF i > MoveRange THEN {}
    ELSE LET r == add(s, ownerId, x + dx * i, y + dy * i)
         IN IF r.go THEN r.moves \cup Ray(s, ownerId, x, y, dx, dy, i + 1)
            ELSE r.moves

Neighbours == {d \in {-1, 0, 1} \X {-1, 0, 1} : d # <<0, 0>>}
Jumps == {<<1, 2>>, <<2, 1>>, <<2, -1>>, <<1, -2>>,
          <<-1, -2>>, <<-2, -1>>, <<-2, 1>>, <<-1, 2>>}
RookDirs == {<<0, 1>>, <<0, -1>>, <<1, 0>>, <<-1, 0>>}
BishopDirs == {<<1, 1>>, <<1, -1>>, <<-1, 1>>, <<-1, -1>>}

\* A plausible slip: the pawn captures like the other pieces, on any
\* neighbouring tile that holds an enemy.
PawnMoves_CaptureAnywhere(s, unit) ==
    {Key(unit.x + d[1], unit.y + d[2]) : d \in
        {d \in Neighbours :
            LET tx == unit.x + d[1]
                ty == unit.y + d[2]
                tid == MapGet(s.positionMap, Key(tx, ty))
            IN /\ InBoard(tx, ty)
               /\ ~isBlocking(s.terrainMap, tx, ty)
               /\ IF tid # NoId
                  THEN /\ tid \in DOMAIN s.units
                       /\ s.units[tid].ownerId # unit.ownerId
                       /\ ~isAlly(s, unit.ownerId, s.units[tid].ownerId)
                  ELSE ~(Abs(d[1]) = 1 /\ Abs(d[2]) = 1)}}

PawnMoves(s, unit) ==
    {Key(unit.x + d[1], unit.y + d[2]) : d \in
        {d \in Neighbours :
            LET tx == unit.x + d[1]
                ty == unit.y + d[2]
                tid == MapGet(s.positionMap, Key(tx, ty))
            IN /\ InBoard(tx, ty)
               /\ ~isBlocking(s.terrainMap, tx, ty)
               /\ IF Abs(d[1]) = 1 /\ Abs(d[2]) = 1
                  THEN /\ tid # NoId
                       /\ tid \in DOMAIN s.units
                       /\ s.units[tid].ownerId # unit.ownerId
                       /\ ~isAlly(s, unit.ownerId, s.units[tid].ownerId)
                  ELSE tid = NoId}}

\* getValidMoves(unit, now, checkCooldown): the set of tiles of the list
getValidMoves(s, unit, now, checkCooldown) ==
    IF checkCooldown /\ now - unit.lastMoveTime < getUnitCooldown(s, unit.type) THEN {}
    ELSE CASE unit.type = "KING" ->
                UNION {add(s, unit.ownerId, unit.x + d[1], unit.y + d[2]).moves : d \in Neighbours}
           [] unit.type = "PAWN" -> PawnMoves(s, unit)
           [] unit.type = "KNIGHT" ->
                UNION {add(s, unit.ownerId, unit.x + d[1], unit.y + d[2]).moves : d \in Jumps}
           [] OTHER ->
                LET dirs == (IF unit.type \in {"ROOK", "QUEEN"} THEN RookDirs ELSE {})
                            \cup (IF unit.type \in {"BISHOP", "QUEEN"} THEN BishopDirs ELSE {})
                IN UNION {Ray(s, unit.ownerId, unit.x, unit.y, d[1], d[2], 1) : d \in dirs}

RECURSIVE Cascade(_, _, _)
\* the King branch's forEach over the victim's roster, from index i on
Cascade(s, victimOwner, i) ==
    LET roster == s.players[victimOwner].units
    IN IF i > Len(roster) THEN s
       ELSE LET uid == roster[i]
            IN IF uid \in DOMAIN s.units /\ ~s.units[uid].isDead
               THEN LET u == s.units[uid]
                        s1 == [s EXCEPT !.units[uid].isDead = TRUE,
                                        !.positionMap = MapDelete(@, Key(u.x, u.y))]
                    IN Cascade(Push(s1, Event("DEATH", u.x, u.y, "chain")), victimOwner, i + 1)
               ELSE Cascade(s, victimOwner, i + 1)

\* A plausible slip: the King dies alone, the roster is left standing.
resolveKill_NoCascade(s, uid, targetId, now) ==
    LET unit == s.units[uid]
        target == s.units[targetId]
        killerId == unit.ownerId
        victimOwner == target.ownerId
        isKing == target.type = "KING"
        s1 == [s EXCEPT !.units[targetId].isDead = TRUE,
                        !.positionMap = MapDelete(@, Key(target.x, target.y))]
        s2 == IF victimOwner \in DOMAIN s1.players
              THEN [s1 EXCEPT !.players[victimOwner].lastScoreTime = now]
              ELSE s1
        scoreReward == IF isKing THEN KingBounty ELSE MATERIAL_VALUES(target.type)
        creditReward == IF isKing THEN KingBounty ELSE SHOP_PRICES(target.type)
        s3 == IF killerId \in DOMAIN s2.players
              THEN Push([s2 EXCEPT !.players[killerId] =
                            [@ EXCEPT !.kingsKilled = IF isKing THEN @ + 1 ELSE @,
                                      !.kills = @ + 1,
                                      !.materialScore = @ + scoreReward,
                                      !.peakMaterial =
                                          IF s2.players[killerId].materialScore + scoreReward > @
                                          THEN s2.players[killerId].materialScore + scoreReward
                                          ELSE @,
                                      !.credits = @ + creditReward]],
                        Event("COIN_PICKUP", target.x, target.y, "killReward"))
              ELSE s2
        s4 == Push(s3, Event("DEATH", target.x, target.y, "kill"))
    IN IF isKing /\ victimOwner \in DOMAIN s4.players
       THEN [s4 EXCEPT !.players[victimOwner].isEliminated = TRUE]
       ELSE s4

\* A plausible slip: the King bounty override is missing.
resolveKill_NoBounty(s, uid, targetId, now) ==
    LET unit == s.units[uid]
        target == s.units[targetId]
        killerId == unit.ownerId
        victimOwner == target.ownerId
        isKing == target.type = "KING"
        s1 == [s EXCEPT !.units[targetId].isDead = TRUE,
                        !.positionMap = MapDelete(@, Key(target.x, target.y))]
        s2 == IF victimOwner \in DOMAIN s1.players
              THEN [s1 EXCEPT !.players[victimOwner].lastScoreTime = now]
              ELSE s1
        scoreReward == MATERIAL_VALUES(target.type)
        creditReward == SHOP_PRICES(target.type)
        s3 == IF killerId \in DOMAIN s2.players
              THEN Push([s2 EXCEPT !.players[killerId] =
                            [@ EXCEPT !.kingsKilled = IF isKing THEN @ + 1 ELSE @,
                                      !.kills = @ + 1,
                                      !.materialScore = @ + scoreReward,
                                      !.peakMaterial =
                                          IF s2.players[killerId].materialScore + scoreReward > @
                                          THEN s2.players[killerId].materialScore + scoreReward
                                          ELSE @,
                                      !.credits = @ + creditReward]],
                        Event("COIN_PICKUP", target.x, target.y, "killReward"))
              ELSE s2
        s4 == Push(s3, Event("DEATH", target.x, target.y, "kill"))
    IN IF isKing /\ victimOwner \in DOMAIN s4.players
       THEN Cascade([s4 EXCEPT !.players[victimOwner].isEliminated = TRUE], victimOwner, 1)
       ELSE s4

\* the branch `if (target.hp <= 0)` of moveUnitInternal
resolveKill(s, uid, targetId, now) ==
    LET unit == s.units[uid]
        target == s.units[targetId]
        killerId == unit.ownerId
        victimOwner == target.ownerId
        isKing == target.type = "KING"
        s1 == [s EXCEPT !.units[targetId].isDead = TRUE,
                        !.positionMap = MapDelete(@, Key(target.x, target.y))]
        s2 == IF victimOwner \in DOMAIN s1.players
              THEN [s1 EXCEPT !.players[victimOwner].lastScoreTime = now]
              ELSE s1
        scoreReward == IF isKing THEN KingBounty ELSE MATERIAL_VALUES(target.type)
        creditReward == IF isKing THEN KingBounty ELSE SHOP_PRICES(target.type)
        s3 == IF killerId \in DOMAIN s2.players
              THEN Push([s2 EXCEPT !.players[killerId] =
                            [@ EXCEPT !.kingsKilled = IF isKing THEN @ + 1 ELSE @,
                                      !.kills = @ + 1,
                                      !.materialScore = @ + scoreReward,
                                      !.peakMaterial =
                                          IF s2.players[killerId].materialScore + scoreReward > @
                                          THEN s2.players[killerId].materialScore + scoreReward
                                          ELSE @,
                                      !.credits = @ + creditReward]],
                        Event("COIN_PICKUP", target.x, target.y, "killReward"))
              ELSE s2
        s4 == Push(s3, Event("DEATH", target.x, target.y, "kill"))
    IN IF isKing /\ victimOwner \in DOMAIN s4.players
       THEN Cascade([s4 EXCEPT !.players[victimOwner].isEliminated = TRUE], victimOwner, 1)
       ELSE s4

\* the branch `if (!targetId || targetDied)`: relocation and coin pickup
relocate(s, uid, x, y) ==
    LET unit == s.units[uid]
        pm1 == MapDelete(s.positionMap, Key(unit.x, unit.y))
        s1 == [s EXCEPT !.positionMap = MapSet(pm1, Key(x, y), uid),
                        !.units[uid].x = x,
                        !.units[uid].y = y]
    IN IF Key(x, y) \in s1.coins /\ unit.ownerId # ZOMBIE_TEAM_ID
       THEN LET s2 == IF unit.ownerId \in DOMAIN s1.players
                      THEN [s1 EXCEPT !.players[unit.ownerId].credits = @ + CoinValue,
                                      !.players[unit.ownerId].totalCollected = @ + CoinValue]
                      ELSE s1
            IN Push([s2 EXCEPT !.coins = @ \ {Key(x, y)}],
                    Event("COIN_PICKUP", x, y, "coin"))
       ELSE s1

\* the tail of moveUnitInternal: lastMoveTime, and the AI action timestamp
stamp(s, uid, now) ==
    LET ownerId == s.units[uid].ownerId
        s1 == [s EXCEPT !.units[uid].lastMoveTime = now]
    IN IF ownerId \in DOMAIN s1.players /\ ~s1.players[ownerId].isHuman
       THEN [s1 EXCEPT !.players[ownerId].lastActionTime = now]
       ELSE s1

\* moveUnitInternal(unit, x, y, now), unit being units.get(uid)
moveUnitInternal(s, uid, x, y, now) ==
    LET rawId == MapGet(s.positionMap, Key(x, y))
        isStale == rawId # NoId /\ (rawId \notin DOMAIN s.units \/ s.units[rawId].isDead)
        s0 == IF isStale THEN [s EXCEPT !.positionMap = MapDelete(@, Key(x, y))] ELSE s
        targetId == IF isStale THEN NoId ELSE rawId
    IN IF targetId = NoId THEN stamp(relocate(s0, uid, x, y), uid, now)
       ELSE IF ~canAttack(s0, s0.units[uid], s0.units[targetId]) THEN s0
       ELSE LET s1 == IF s0.gameMode = "DIPLOMACY"
                      THEN declareWar(s0, s0.units[uid].ownerId, s0.units[targetId].ownerId)
                      ELSE s0
            IN IF modeHandlesDeath(s1, targetId, uid)
               THEN [ZombieMode_handleDeath(s1, targetId, uid)
                        EXCEPT !.units[uid].lastMoveTime = now]
               ELSE LET s2 == [s1 EXCEPT !.units[targetId].hp = @ - 1]
                        targetDied == s2.units[targetId].hp <= 0
                        s3 == IF targetDied THEN resolveKill(s2, uid, targetId, now) ELSE s2
                        s4 == IF targetDied THEN relocate(s3, uid, x, y) ELSE s3
                    IN stamp(s4, uid, now)


(* --------------------------- command intake --------------------------- *)
RECURSIVE ResignLoop(_, _, _)
\* resign's forEach over the human roster, from index i on
ResignLoop(s, human, i) ==
    LET roster == s.players[human].units
    IN IF i > Len(roster) THEN s
       ELSE LET uid == roster[i]
            IN IF uid \in DOMAIN s.units
               THEN LET u == s.units[uid]
                        s1 == [s EXCEPT !.units[uid].isDead = TRUE,
                                        !.positionMap = MapDelete(@, Key(u.x, u.y))]
                    IN ResignLoop(Push(s1, Event("DEATH", u.x, u.y, "resign")), human, i + 1)
               ELSE ResignLoop(s, human, i + 1)

\* A plausible slip: the resigning player is taken out of the players map.
resign_DropPlayer(s) ==
    IF s.humanId \in DOMAIN s.players /\ ~s.players[s.humanId].isEliminated
    THEN LET r == ResignLoop([s EXCEPT !.players[s.humanId].isEliminated = TRUE,
                                       !.isResigned = TRUE], s.humanId, 1)
         IN [r EXCEPT !.players = [p \in DOMAIN r.players \ {s.humanId} |-> r.players[p]]]
    ELSE s

resign(s) ==
    IF s.humanId \in DOMAIN s.players /\ ~s.players[s.humanId].isEliminated
    THEN ResignLoop([s EXCEPT !.players[s.humanId].isEliminated = TRUE,
                              !.isResigned = TRUE], s.humanId, 1)
    ELSE s

\* getLeaderboard's currentScore of a player
currentScore(s, p) ==
    IF s.players[p].isEliminated THEN 0
    ELSE LET roster == s.players[p].units
         IN SumSeq([i \in 1 .. Len(roster) |->
                       IF roster[i] \in DOMAIN s.units /\ ~s.units[roster[i]].isDead
                       THEN MATERIAL_VALUES(s.units[roster[i]].type)
                       ELSE 0])

\* the sort's comparator is negative: a goes before b
SortsBefore(s, a, b) ==
    IF a.isEliminated # b.isEliminated THEN ~a.isEliminated
    ELSE IF a.score # b.score THEN b.score < a.score
    ELSE s.players[b.playerId].lastScoreTime < s.players[a.playerId].lastScoreTime

\* Array.prototype.sort is stable: an entry goes in front of the first
\* entry it sorts before, behind its equals
RECURSIVE SortEntries(_, _, _)
SortEntries(s, entries, sorted) ==
    IF entries = << >> THEN sorted
    ELSE LET e == Head(entries)
             ahead == {i \in DOMAIN sorted : SortsBefore(s, e, sorted[i])}
             at == IF ahead = {} THEN Len(sorted) + 1
                   ELSE CHOOSE i \in ahead : \A j \in ahead : i <= j
         IN SortEntries(s, Tail(entries),
                        SubSeq(sorted, 1, at - 1) \o <<e>> \o SubSeq(sorted, at, Len(sorted)))

finalEntries(s) ==
    LET calculatedEntries ==
            [i \in DOMAIN s.playerOrder |->
                LET p == s.playerOrder[i]
                IN [playerId |-> p, isHuman |-> s.players[p].isHuman,
                    score |-> currentScore(s, p),
                    isEliminated |-> s.players[p].isEliminated]]
        sorted == SortEntries(s, calculatedEntries, << >>)
    IN [i \in DOMAIN sorted |->
           [playerId |-> sorted[i].playerId, isHuman |-> sorted[i].isHuman,
            score |-> sorted[i].score, rank |-> i]]

\* A plausible slip: the plain top eight, the human left to its rank.
getLeaderboard_TopOnly(s) ==
    LET final == finalEntries(s)
    IN SubSeq(final, 1, IF Len(final) < LeaderboardSize THEN Len(final) ELSE LeaderboardSize)

getLeaderboard(s) ==
    LET final == finalEntries(s)
        humans == {i \in DOMAIN final : final[i].isHuman}
        humanEntry == final[CHOOSE i \in humans : \A j \in humans : i <= j]
        top(n) == SubSeq(final, 1, IF Len(final) < n THEN Len(final) ELSE n)
    IN IF humans # {} /\ humanEntry.rank > LeaderboardSize
       THEN top(LeaderboardSize - 1) \o <<humanEntry>>
       ELSE top(LeaderboardSize)

\* the GameOverStats object; timeSurvived is in whole seconds, the clock
\* moving by whole seconds here
GameOverStats(s, isWin, rank) ==
    LET known == s.humanId \in DOMAIN s.players
        human == s.players[s.humanId]
    IN [isWin |-> isWin,
        rank |-> rank,
        kills |-> IF known THEN human.kills ELSE 0,
        kingsKilled |-> IF known THEN human.kingsKilled ELSE 0,
        coins |-> IF known THEN human.totalCollected ELSE 0,
        timeSurvived |-> (s.virtualTime - StartTime) \div 1000,
        finalScore |-> IF known THEN human.materialScore ELSE 0,
        \* set from isResigned in the lost case, absent (falsy) in the won one
        isResignation |-> (~isWin) /\ s.isResigned]

\* A plausible slip: the zombie faction is counted among the survivors.
ComputeGameOver_CountZombies(s) ==
    LET known == s.humanId \in DOMAIN s.players
        activePlayers == {p \in DOMAIN s.players : ~s.players[p].isEliminated}
    IN IF known /\ (s.players[s.humanId].isEliminated \/ s.isResigned)
       THEN GameOverStats(s, FALSE, playersRemaining(s) + 1)
       ELSE IF activePlayers = {s.humanId}
       THEN GameOverStats(s, TRUE, 1)
       ELSE NoStats

\* checkGameOver() without the cache: the stats of the state as it is
ComputeGameOver(s) ==
    LET known == s.humanId \in DOMAIN s.players
        activePlayers == {p \in DOMAIN s.players :
                             ~s.players[p].isEliminated /\ p # ZOMBIE_TEAM_ID}
    IN IF known /\ (s.players[s.humanId].isEliminated \/ s.isResigned)
       THEN GameOverStats(s, FALSE, playersRemaining(s) + 1)
       ELSE IF activePlayers = {s.humanId}
       THEN GameOverStats(s, TRUE, 1)
       ELSE NoStats

\* A plausible slip: the stats are computed afresh at every call.
checkGameOver_NoCache(s) == [s EXCEPT !.cachedGameOverStats = ComputeGameOver(s)]

\* checkGameOver(): the engine state it leaves
checkGameOver(s) ==
    IF s.cachedGameOverStats # NoStats THEN s
    ELSE [s EXCEPT !.cachedGameOverStats = ComputeGameOver(s)]

\* checkGameOver(): what it returns
checkGameOver_returns(s) == checkGameOver(s).cachedGameOverStats

NewUnit(ownerId, type, x, y, lastMoveTime) ==
    [ownerId |-> ownerId, type |-> type, x |-> x, y |-> y,
     lastMoveTime |-> lastMoveTime, hp |-> 1, isDead |-> FALSE, isZombie |-> FALSE]

\* the id a creation mints: unique (a Math.random() or Date.now() suffix)
FreshId(s) == s.unitSeq + 1

spawnUnitRaw(s, x, y, type, ownerId) ==
    IF ownerId \notin DOMAIN s.players THEN s
    ELSE LET existingId == MapGet(s.positionMap, Key(x, y))
             s1 == IF existingId = NoId THEN s
                   ELSE LET pl == IF /\ existingId \in DOMAIN s.units
                                     /\ s.units[existingId].ownerId \in DOMAIN s.players
                                  THEN [s.players EXCEPT
                                          ![s.units[existingId].ownerId].units =
                                              Without(@, existingId)]
                                  ELSE s.players
                        IN [s EXCEPT !.players = pl,
                                     !.units = MapDelete(@, existingId),
                                     !.positionMap = MapDelete(@, Key(x, y))]
             id == FreshId(s1)
             s2 == [s1 EXCEPT !.units = MapSet(@, id, NewUnit(ownerId, type, x, y, 0)),
                              !.positionMap = MapSet(@, Key(x, y), id),
                              !.players[ownerId].units = Append(@, id),
                              !.unitSeq = id]
         IN Push(s2, Event("SPAWN", x, y, "raw"))

removeUnitAt(s, x, y) ==
    LET unitId == MapGet(s.positionMap, Key(x, y))
    IN IF unitId = NoId THEN s
       ELSE LET s1 == IF unitId \in DOMAIN s.units
                      THEN LET ownerId == s.units[unitId].ownerId
                               pl == IF ownerId \in DOMAIN s.players
                                     THEN [s.players EXCEPT ![ownerId].units = Without(@, unitId)]
                                     ELSE s.players
                           IN Push([s EXCEPT !.players = pl], Event("DEATH", x, y, "erase"))
                      ELSE s
            IN [s1 EXCEPT !.units = MapDelete(@, unitId),
                          !.positionMap = MapDelete(@, Key(x, y))]

getValidSpawnTiles(s, playerId) ==
    IF playerId \notin DOMAIN s.players THEN {}
    ELSE {t \in Tiles :
            /\ ~MapHas(s.positionMap, t)
            /\ ~isBlocking(s.terrainMap, t[1], t[2])
            /\ \E uid \in Elems(s.players[playerId].units) :
                  /\ uid \in DOMAIN s.units
                  /\ ~s.units[uid].isDead
                  /\ \E d \in Neighbours :
                        t = Key(s.units[uid].x + d[1], s.units[uid].y + d[2])}

\* A plausible slip: the price is taken before the tile is looked at.
buyUnit_ChargeFirst(s, playerId, type, x, y) ==
    IF playerId \notin DOMAIN s.players THEN s
    ELSE IF s.players[playerId].credits < SHOP_PRICES(type) THEN s
    ELSE LET paid == [s EXCEPT !.players[playerId].credits = @ - SHOP_PRICES(type)]
         IN IF MapHas(s.positionMap, Key(x, y)) THEN paid
            ELSE LET id == FreshId(s)
                     s1 == [paid EXCEPT !.players[playerId].units = Append(@, id),
                                        !.units = MapSet(@, id, NewUnit(playerId, type, x, y,
                                                                        s.virtualTime)),
                                        !.positionMap = MapSet(@, Key(x, y), id),
                                        !.unitSeq = id]
                 IN Push(s1, Event("SPAWN", x, y, "buy"))

\* A plausible slip: the price is charged without a look at the balance.
buyUnit_OnCredit(s, playerId, type, x, y) ==
    IF playerId \notin DOMAIN s.players THEN s
    ELSE IF MapHas(s.positionMap, Key(x, y)) THEN s
    ELSE LET id == FreshId(s)
             s1 == [s EXCEPT !.players[playerId].credits = @ - SHOP_PRICES(type),
                             !.players[playerId].units = Append(@, id),
                             !.units = MapSet(@, id, NewUnit(playerId, type, x, y, s.virtualTime)),
                             !.positionMap = MapSet(@, Key(x, y), id),
                             !.unitSeq = id]
         IN Push(s1, Event("SPAWN", x, y, "buy"))

\* buyUnit(playerId, type, x, y): the engine state it leaves
buyUnit(s, playerId, type, x, y) ==
    IF playerId \notin DOMAIN s.players THEN s
    ELSE IF s.players[playerId].credits < SHOP_PRICES(type) THEN s
    ELSE IF MapHas(s.positionMap, Key(x, y)) THEN s
    ELSE LET id == FreshId(s)
             s1 == [s EXCEPT !.players[playerId].credits = @ - SHOP_PRICES(type),
                             !.players[playerId].units = Append(@, id),
                             !.units = MapSet(@, id, NewUnit(playerId, type, x, y, s.virtualTime)),
                             !.positionMap = MapSet(@, Key(x, y), id),
                             !.unitSeq = id]
         IN Push(s1, Event("SPAWN", x, y, "buy"))

\* buyUnit(playerId, type, x, y): the id it returns, NoId for null
buyUnit_returns(s, playerId, type, x, y) ==
    IF playerId \notin DOMAIN s.players THEN NoId
    ELSE IF s.players[playerId].credits < SHOP_PRICES(type) THEN NoId
    ELSE IF MapHas(s.positionMap, Key(x, y)) THEN NoId
    ELSE FreshId(s)

\* A plausible slip: the move is validated but the cooldown is not.
RECURSIVE issueCommand_NoCooldown(_, _, _, _)
issueCommand_NoCooldown(s, unitIds, x, y) ==
    IF unitIds = <<>> THEN s
    ELSE LET uid == Head(unitIds)
             now == s.virtualTime
             s1 == IF /\ uid \in DOMAIN s.units
                      /\ ~s.units[uid].isDead
                      /\ Key(x, y) \in getValidMoves(s, s.units[uid], now, FALSE)
                   THEN moveUnitInternal(s, uid, x, y, now)
                   ELSE s
         IN issueCommand_NoCooldown(s1, Tail(unitIds), x, y)

RECURSIVE issueCommand(_, _, _, _)
\* issueCommand(unitIds, x, y): the forEach over the selection, in order
issueCommand(s, unitIds, x, y) ==
    IF unitIds = <<>> THEN s
    ELSE LET uid == Head(unitIds)
             now == s.virtualTime
             s1 == IF /\ uid \in DOMAIN s.units
                      /\ ~s.units[uid].isDead
                      /\ now - s.units[uid].lastMoveTime >= getUnitCooldown(s, s.units[uid].type)
                      /\ Key(x, y) \in getValidMoves(s, s.units[uid], now, FALSE)
                   THEN moveUnitInternal(s, uid, x, y, now)
                   ELSE s
         IN issueCommand(s1, Tail(unitIds), x, y)

\* A plausible slip: the copy is returned and the queue is left as it is.
consumeEvents_KeepQueue(s) == s

\* consumeEvents(): the engine state it leaves
consumeEvents(s) == [s EXCEPT !.eventQueue = <<>>]

\* consumeEvents(): the list it returns, a copy of the queue
consumeEvents_returns(s) == s.eventQueue


(* ------------------------------ bots ---------------------------------- *)
aliveCount(s, botId) ==
    Cardinality({i \in DOMAIN s.players[botId].units :
                    LET uid == s.players[botId].units[i]
                    IN uid \in DOMAIN s.units /\ ~s.units[uid].isDead})

\* botPurchaseReinforcements: the states one purchase can leave.  The roll
\* and the safety filter decide which affordable type of the list is
\* bought and where; every affordable type and every valid tile is allowed.
botPurchases(s, botId, now) ==
    IF s.players[botId].isHuman \/ botId = ZOMBIE_TEAM_ID THEN {}
    ELSE IF aliveCount(s, botId) >= 15 THEN {}
    ELSE LET isEndgame == s.directorPhase \in {"CONVERGENCE", "SUDDEN_DEATH"}
             purchaseList ==
                 IF isEndgame THEN {"QUEEN", "ROOK"}
                 ELSE {"QUEEN", "ROOK", "BISHOP", "KNIGHT"}
                      \cup (IF aliveCount(s, botId) < 5 THEN {"PAWN"} ELSE {})
         IN {[buyUnit(s, botId, type, t[1], t[2]) EXCEPT !.players[botId].lastActionTime = now] :
                <<type, t>> \in {c \in purchaseList \X getValidSpawnTiles(s, botId) :
                                    /\ s.players[botId].credits >= SHOP_PRICES(c[1])
                                    /\ s.unitSeq < MaxUnitSeq}}

\* A plausible slip: no return after the purchase, the bot moves as well.
executeBotTurn_BuyAndMove(s, botId, now) ==
    LET bought == {s} \cup botPurchases(s, botId, now)
    IN UNION {{b} \cup {moveUnitInternal(b, c[1], c[2][1], c[2][2], now) :
                          c \in {c \in Elems(b.players[botId].units) \X Tiles :
                                   /\ c[1] \in DOMAIN b.units
                                   /\ ~b.units[c[1]].isDead
                                   /\ c[2] \in getValidMoves(b, b.units[c[1]], now, TRUE)}} :
                b \in bought}

\* executeBotTurn(bot, now): the states one activation can leave.  The
\* scored choice (alignment, capture bonus, safety, formation, jitter) is a
\* choice of any ready unit of the roster and any of its valid moves; the
\* reaction-delay gate, an empty lane or a vetoed purchase leave the state
\* as it is.
executeBotTurn(s, botId, now) ==
    LET roster == s.players[botId].units
        kings == {i \in DOMAIN roster :
                    roster[i] \in DOMAIN s.units /\ s.units[roster[i]].type = "KING"}
    IN IF kings = {} THEN {s}
       ELSE LET kingId == roster[CHOOSE k \in kings : \A j \in kings : k <= j]
            IN IF s.units[kingId].isDead THEN {s}
               ELSE LET ready == {uid \in Elems(roster) :
                                     /\ uid \in DOMAIN s.units
                                     /\ ~s.units[uid].isDead
                                     /\ now - s.units[uid].lastMoveTime
                                           >= getUnitCooldown(s, s.units[uid].type)}
                        moved == {moveUnitInternal(s, c[1], c[2][1], c[2][2], now) :
                                     c \in {c \in ready \X Tiles :
                                              c[2] \in getValidMoves(s, s.units[c[1]], now, TRUE)}}
                        \* the emergency King move stamps the bot even when denied
                        kingMoved == {[moveUnitInternal(s, kingId, m[1], m[2], now)
                                          EXCEPT !.players[botId].lastActionTime = now] :
                                        m \in IF kingId \in ready
                                              THEN getValidMoves(s, s.units[kingId], now, TRUE)
                                              ELSE {}}
                    IN {s} \cup botPurchases(s, botId, now) \cup moved \cup kingMoved

\* A plausible slip: the thresholds taken as strict bounds.
runDirectorAI_StrictBounds(s, gameTime) ==
    LET remaining == playersRemaining(s)
        newPhase == IF remaining < 20 THEN "SUDDEN_DEATH"
                    ELSE IF remaining < 40 THEN "CONVERGENCE"
                    ELSE IF remaining < 60 THEN "HUNT"
                    ELSE "CHAOS"
        s1 == [s EXCEPT !.directorPhase = newPhase,
                        !.directorRules =
                            [infiniteVision |-> newPhase \in {"HUNT", "CONVERGENCE",
                                                              "SUDDEN_DEATH"},
                             centerGravity |-> newPhase = "CONVERGENCE",
                             totalWar |-> newPhase = "SUDDEN_DEATH"]]
    IN IF remaining <= 10 /\ gameTime % 10000 < 100
       THEN [s1 EXCEPT !.players =
               [p \in DOMAIN s1.players |->
                   IF /\ ~s1.players[p].isHuman
                      /\ ~s1.players[p].isEliminated
                      /\ p # ZOMBIE_TEAM_ID
                   THEN [s1.players[p] EXCEPT !.credits = @ + 1]
                   ELSE s1.players[p]]]
       ELSE s1

\* A plausible slip: the thresholds are compared the wrong way round.
runDirectorAI_Inverted(s, gameTime) ==
    LET remaining == playersRemaining(s)
        newPhase == IF remaining >= 60 THEN "SUDDEN_DEATH"
                    ELSE IF remaining >= 40 THEN "CONVERGENCE"
                    ELSE IF remaining >= 20 THEN "HUNT"
                    ELSE "CHAOS"
        s1 == [s EXCEPT !.directorPhase = newPhase,
                        !.directorRules =
                            [infiniteVision |-> newPhase \in {"HUNT", "CONVERGENCE",
                                                              "SUDDEN_DEATH"},
                             centerGravity |-> newPhase = "CONVERGENCE",
                             totalWar |-> newPhase = "SUDDEN_DEATH"]]
    IN IF remaining <= 10 /\ gameTime % 10000 < 100
       THEN [s1 EXCEPT !.players =
               [p \in DOMAIN s1.players |->
                   IF /\ ~s1.players[p].isHuman
                      /\ ~s1.players[p].isEliminated
                      /\ p # ZOMBIE_TEAM_ID
                   THEN [s1.players[p] EXCEPT !.credits = @ + 1]
                   ELSE s1.players[p]]]
       ELSE s1

\* runDirectorAI(gameTime): the phase, and the endgame credit subsidy
runDirectorAI(s, gameTime) ==
    LET remaining == playersRemaining(s)
        newPhase == IF remaining <= 20 THEN "SUDDEN_DEATH"
                    ELSE IF remaining <= 40 THEN "CONVERGENCE"
                    ELSE IF remaining <= 60 THEN "HUNT"
                    ELSE "CHAOS"
        s1 == [s EXCEPT !.directorPhase = newPhase,
                        !.directorRules =
                            [infiniteVision |-> newPhase \in {"HUNT", "CONVERGENCE",
                                                              "SUDDEN_DEATH"},
                             centerGravity |-> newPhase = "CONVERGENCE",
                             totalWar |-> newPhase = "SUDDEN_DEATH"]]
    IN IF remaining <= 10 /\ gameTime % 10000 < 100
       THEN [s1 EXCEPT !.players =
               [p \in DOMAIN s1.players |->
                   IF /\ ~s1.players[p].isHuman
                      /\ ~s1.players[p].isEliminated
                      /\ p # ZOMBIE_TEAM_ID
                   THEN [s1.players[p] EXCEPT !.credits = @ + 1]
                   ELSE s1.players[p]]]
       ELSE s1

\* A plausible slip: the timer is not held at zero.
modeUpdate_NoClamp(s, delta) ==
    CASE ActiveMode(s.gameMode) = "DiplomacyMode" ->
            LET t1 == IF s.peaceTimer > 0 THEN s.peaceTimer - delta ELSE s.peaceTimer
            IN runDirectorAI([s EXCEPT !.peaceTimer = t1], s.virtualTime)
      [] ActiveMode(s.gameMode) = "SandboxMode" ->
            IF s.isSimulationRunning THEN runDirectorAI(s, s.virtualTime) ELSE s
      [] OTHER -> runDirectorAI(s, s.virtualTime)

\* this.activeMode.update(this, delta)
modeUpdate(s, delta) ==
    CASE ActiveMode(s.gameMode) = "DiplomacyMode" ->
            LET t1 == IF s.peaceTimer > 0 THEN s.peaceTimer - delta ELSE s.peaceTimer
                t2 == IF s.peaceTimer > 0 /\ t1 < 0 THEN 0 ELSE t1
            IN runDirectorAI([s EXCEPT !.peaceTimer = t2], s.virtualTime)
      [] ActiveMode(s.gameMode) = "SandboxMode" ->
            IF s.isSimulationRunning THEN runDirectorAI(s, s.virtualTime) ELSE s
      [] OTHER -> runDirectorAI(s, s.virtualTime)

\* updateDiplomacy's scan around the bot's King (every 5th tile up to 15)
nearbyPlayers(s, botId) ==
    LET roster == s.players[botId].units
        kings == {i \in DOMAIN roster :
                    roster[i] \in DOMAIN s.units /\ s.units[roster[i]].type = "KING"}
    IN IF kings = {} THEN {}
       ELSE LET king == s.units[roster[CHOOSE k \in kings : \A j \in kings : k <= j]]
                scan == {-15, -10, -5, 0, 5, 10, 15}
            IN {s.units[MapGet(s.positionMap, Key(king.x + d[1], king.y + d[2]))].ownerId :
                   d \in {d \in scan \X scan :
                            LET tid == MapGet(s.positionMap, Key(king.x + d[1], king.y + d[2]))
                            IN /\ tid # NoId
                               /\ tid \in DOMAIN s.units
                               /\ s.units[tid].ownerId # botId}}

RECURSIVE diplomacyRound(_, _, _)
\* the forEach over nearbyPlayers: each draw of Math.random() may leave the
\* pair alone, ask for an alliance, or (armistice over) declare war
diplomacyRound(S, botId, others) ==
    IF others = {} THEN S
    ELSE LET o == CHOOSE x \in others : TRUE
             step(s) ==
                 IF \/ o \notin DOMAIN s.players
                    \/ s.players[o].isEliminated
                    \/ Includes(s.players[botId].allies, o)
                    \/ Includes(s.players[botId].enemies, o)
                 THEN {s}
                 ELSE IF s.peaceTimer > 0
                      THEN {s, handleAllianceRequest(s, o, botId, TRUE),
                               handleAllianceRequest(s, o, botId, FALSE)}
                      ELSE {s, declareWar(s, botId, o),
                               handleAllianceRequest(s, o, botId, TRUE),
                               handleAllianceRequest(s, o, botId, FALSE)}
         IN diplomacyRound(UNION {step(s) : s \in S}, botId, others \ {o})

updateDiplomacy(s, botId, now) ==
    IF s.gameMode # "DIPLOMACY" THEN {s}
    ELSE IF s.players[botId].isHuman \/ s.players[botId].isEliminated THEN {s}
    ELSE diplomacyRound({s}, botId, nearbyPlayers(s, botId))

\* Bookkeeping of the model, not a field of Player: idleTicks counts the
\* unpaused ticks a player has gone through since executeBotTurn was last
\* called for it, up to IdleCap.
idled(s) ==
    [s EXCEPT !.players = [p \in DOMAIN s.players |->
                              [s.players[p] EXCEPT
                                  !.idleTicks = IF @ < IdleCap THEN @ + 1 ELSE @]]]
activated(s, p) == [s EXCEPT !.players[p].idleTicks = 0]

\* A plausible slip: the batch rounded down.
batchSize_Floor(n) == n \div 5

\* Math.ceil(players.length / 5)
batchSize(n) == (n + 4) \div 5

\* players[this.aiUpdateIndex % players.length], as an index from 0
slotAt(index, n) == index % n

RECURSIVE botBatch(_, _)
\* tick's loop over a batch of player slots
botBatch(S, left) ==
    IF left = 0 THEN S
    ELSE LET slot(s) ==
                 LET n == Len(s.playerOrder)
                     p == s.playerOrder[slotAt(s.aiUpdateIndex, n) + 1]
                     s1 == [s EXCEPT !.aiUpdateIndex = (@ + 1) % n]
                 IN IF ~s1.players[p].isHuman /\ ~s1.players[p].isEliminated
                    THEN UNION {updateDiplomacy(b, p, b.virtualTime) :
                                  b \in executeBotTurn(activated(s1, p), p, s1.virtualTime)}
                    ELSE {s1}
         IN botBatch(UNION {slot(s) : s \in S}, left - 1)

\* tick(), delta being (Date.now() - lastRealTime) * timeMultiplier
tick(s, delta) ==
    IF s.paused THEN {s}
    ELSE LET s1 == [s EXCEPT !.virtualTime = @ + delta]
             s2 == idled(modeUpdate(s1, delta))
             n == Len(s2.playerOrder)
         IN IF n = 0 THEN {s2} ELSE botBatch({s2}, batchSize(n))

\* the wall clock moves on by `wait` before the engine is called again
Later(s, wait) == [s EXCEPT !.realNow = @ + wait]

\* tick() as called: now is Date.now(), delta is measured from lastRealTime
tickNow(s) ==
    IF s.paused THEN {s}
    ELSE tick([s EXCEPT !.lastRealTime = s.realNow],
              (s.realNow - s.lastRealTime) * s.timeMultiplier)

\* A plausible slip: the resume leaves lastRealTime where the pause began.
setPaused_NoRebase(s, p) == [s EXCEPT !.paused = p]

setPaused(s, p) ==
    IF p THEN [s EXCEPT !.paused = TRUE]
    ELSE [s EXCEPT !.paused = FALSE, !.lastRealTime = s.realNow]


(* ------------------------- match initialization ----------------------- *)
\* The players of the model: player-<pid>, pid = row * 10 + col of the
\* 10 x 10 spawn grid.  Columns 0, 4 and 8 are 72 apart pairwise-adjacent
\* and 144 apart end to end, so the proximity gate of 80 is met both ways.
Slots == << [id |-> "player-0", pid |-> 0], [id |-> "player-4", pid |-> 4],
            [id |-> "player-8", pid |-> 8], [id |-> "player-1", pid |-> 1],
            [id |-> "player-5", pid |-> 5] >>

\* (col - HALF_X) * SPACING_X and (row - HALF_Y) * SPACING_Y
centerXOf(pid) == (2 * (pid % 10) - 9) * 9
centerYOf(pid) == (2 * (pid \div 10) - 9) * 5

\* where a slot's army stands in the window (the armies, 18 x 10 apart on
\* the real grid, are brought next to each other)
Anchor(k) ==
    CASE k = 1 -> <<0, 0>>
      [] k = 2 -> <<BoardSize - 2, BoardSize - 1>>
      [] k = 3 -> <<0, BoardSize - 2>>
      [] OTHER -> <<BoardSize - 2, 1>>

\* generateArmy's rows, cut down: the King and the piece next to it
SmallArmy == << [type |-> "KING", ox |-> 0, oy |-> 0],
                [type |-> "PAWN", ox |-> 1, oy |-> 0] >>
KingOnly == << [type |-> "KING", ox |-> 0, oy |-> 0] >>

NewPlayer(isHuman, cx, cy, unitIds, score, now) ==
    [isHuman |-> isHuman, centerX |-> cx, centerY |-> cy, isEliminated |-> FALSE,
     units |-> unitIds, credits |-> 0, totalCollected |-> 0,
     materialScore |-> score, peakMaterial |-> score, kills |-> 0, kingsKilled |-> 0,
     lastScoreTime |-> now, allies |-> <<>>, enemies |-> <<>>,
     lastActionTime |-> 0, idleTicks |-> 0]

\* generateArmy(playerId, startX, startY) for the k-th player
generateArmy(k, playerId, layout) ==
    [ids |-> [i \in 1 .. Len(layout) |-> (k - 1) * Len(layout) + i],
     units |-> [id \in {(k - 1) * Len(layout) + i : i \in 1 .. Len(layout)} |->
                  LET piece == layout[id - (k - 1) * Len(layout)]
                  IN NewUnit(playerId, piece.type, Anchor(k)[1] + piece.ox,
                             Anchor(k)[2] + piece.oy, 0)]]

\* clearMap(): units, index and coins emptied, the rosters with them
clearMap(s) ==
    [s EXCEPT !.units = << >>, !.positionMap = << >>, !.coins = {},
              !.players = [p \in DOMAIN s.players |-> [s.players[p] EXCEPT !.units = << >>]]]

\* FACTION_COLORS, as the ids of the sandbox teams
SandboxTeams == << "sandbox-red", "sandbox-orange", "sandbox-yellow", "sandbox-green",
                   "sandbox-blue", "sandbox-indigo", "sandbox-violet" >>

\* A plausible slip: the editor is not paused when it opens.
SandboxMode_init_Unpaused(s) ==
    LET c == clearMap(s)
        team == NewPlayer(FALSE, 0, 0, << >>, 0, c.virtualTime)
    IN [c EXCEPT !.players = [p \in Elems(SandboxTeams) |-> team],
                 !.playerOrder = SandboxTeams,
                 !.humanId = "spectator"]

\* SandboxMode.init: the map cleared, the engine paused, the players
\* replaced by the seven teams (all of them bots), the human a spectator
SandboxMode_init(s) ==
    LET c == setPaused(clearMap(s), TRUE)
        team == NewPlayer(FALSE, 0, 0, << >>, 0, c.virtualTime)
    IN [c EXCEPT !.players = [p \in Elems(SandboxTeams) |-> team],
                 !.playerOrder = SandboxTeams,
                 !.humanId = "spectator"]

\* this.activeMode.init(this), the last statement of initGame
activeModeInit(s) ==
    IF ActiveMode(s.gameMode) = "SandboxMode" THEN SandboxMode_init(s) ELSE s

\* A plausible slip: the id compared where the index is meant, never equal.
isHuman_IdForIndex(k, humanSlot) == FALSE

\* const isHuman = pid === humanIndex
isHuman(k, humanSlot) == k = humanSlot

\* constructor and initGame(): n players, one of them (humanSlot) human
initGame(mode, n, layout, humanSlot, coinKeys) ==
    LET armies == [k \in 1 .. n |-> generateArmy(k, Slots[k].id, layout)]
        allIds == 1 .. (n * Len(layout))
        ownerSlot(id) == ((id - 1) \div Len(layout)) + 1
        allUnits == [id \in allIds |-> armies[ownerSlot(id)].units[id]]
        ids == {Slots[k].id : k \in 1 .. n}
        slotOf(pid) == CHOOSE k \in 1 .. n : Slots[k].id = pid
        score(k) == SumSeq([i \in 1 .. Len(layout) |-> MATERIAL_VALUES(layout[i].type)])
        regular == [p \in ids |->
                      NewPlayer(isHuman(slotOf(p), humanSlot), centerXOf(Slots[slotOf(p)].pid),
                                centerYOf(Slots[slotOf(p)].pid), armies[slotOf(p)].ids,
                                score(slotOf(p)), StartTime)]
        zombie == NewPlayer(FALSE, 0, 0, <<>>, 0, StartTime)
        order == [k \in 1 .. n |-> Slots[k].id]
    IN activeModeInit(
       [gameMode |-> mode,
        units |-> allUnits,
        positionMap |-> [t \in {Key(allUnits[id].x, allUnits[id].y) : id \in allIds} |->
                            CHOOSE id \in allIds : Key(allUnits[id].x, allUnits[id].y) = t],
        players |-> IF mode = "ZOMBIES"
                    THEN [p \in ids \cup {ZOMBIE_TEAM_ID} |->
                             IF p = ZOMBIE_TEAM_ID THEN zombie ELSE regular[p]]
                    ELSE regular,
        playerOrder |-> IF mode = "ZOMBIES" THEN <<ZOMBIE_TEAM_ID>> \o order ELSE order,
        humanId |-> Slots[humanSlot].id,
        coins |-> IF mode = "STANDARD" THEN {}
                  ELSE {c \in coinKeys : \A id \in allIds : Key(allUnits[id].x, allUnits[id].y) # c},
        terrainMap |-> << >>,
        eventQueue |-> << >>,
        virtualTime |-> StartTime,
        paused |-> FALSE,
        peaceTimer |-> IF mode = "DIPLOMACY" THEN PEACE_DURATION ELSE 0,
        aiUpdateIndex |-> 0,
        isResigned |-> FALSE,
        directorPhase |-> "CHAOS",
        directorRules |-> [infiniteVision |-> FALSE, centerGravity |-> FALSE,
                           totalWar |-> FALSE],
        cachedGameOverStats |-> NoStats,
        realNow |-> StartTime,
        lastRealTime |-> StartTime,
        timeMultiplier |-> 1,
        unitSeq |-> n * Len(layout),
        isSimulationRunning |-> FALSE])

\* initAttractMode(): the background battle of the menu, two bot players
\* (the 300 random pieces cut down to the two Kings and what `layout` adds);
\* humanId, the pause flag and the terrain stay as they were
initAttractMode(s, layout) ==
    LET ids == << "attract-blue", "attract-red" >>
        armies == [k \in 1 .. 2 |-> generateArmy(k, ids[k], layout)]
        allIds == 1 .. (2 * Len(layout))
        ownerSlot(id) == ((id - 1) \div Len(layout)) + 1
        allUnits == [id \in allIds |-> armies[ownerSlot(id)].units[id]]
        slotOf(p) == CHOOSE k \in 1 .. 2 : ids[k] = p
    IN [s EXCEPT !.gameMode = "STANDARD",
                 !.isResigned = FALSE,
                 !.units = allUnits,
                 !.positionMap =
                     [t \in {Key(allUnits[id].x, allUnits[id].y) : id \in allIds} |->
                         CHOOSE id \in allIds : Key(allUnits[id].x, allUnits[id].y) = t],
                 !.players =
                     [p \in Elems(ids) |->
                         [NewPlayer(FALSE, IF p = "attract-blue" THEN -20 ELSE 20, 0,
                                    armies[slotOf(p)].ids, 0, s.realNow)
                             EXCEPT !.credits = 1000]],
                 !.playerOrder = ids,
                 !.coins = {},
                 !.aiUpdateIndex = 0,
                 !.cachedGameOverStats = NoStats,
                 !.timeMultiplier = 1,
                 !.virtualTime = s.realNow,
                 !.unitSeq = 2 * Len(layout)]

\* spawnCoins drops coins on free tiles; the model drops at most this one
CoinChoices == {{}, {Key(BoardSize - 1, 0)}}

\* WorldGenerator.generate: nothing for an EMPTY map; otherwise every tile
\* outside the protected spawn areas gets, from seeded noise, no entry or one
\* of the map type's terrain types.  The seed is the wall clock, so any such
\* map can come out; the model keeps at most MaxTerrain tiles of terrain and
\* scales the protected area down to the tiles the armies stand on.
TerrainTypes(mapType) ==
    CASE mapType = "FOREST" -> {"WALL", "FOREST"}
      [] mapType = "DESERT" -> {"WALL", "SAND"}
      [] mapType = "FROZEN" -> {"WALL", "WATER", "SNOW"}
      [] OTHER -> {}

generate(mapType, protectedTiles) ==
    IF mapType = "EMPTY" THEN {<< >>}
    ELSE UNION {[D -> TerrainTypes(mapType)] :
                   D \in {D \in SUBSET (Tiles \ protectedTiles) : Cardinality(D) <= MaxTerrain}}

\* initGame() with config.mapType set: the terrain is generated last
initGameOnMap(mode, n, layout, humanSlot, coinKeys, mapType) ==
    LET g == initGame(mode, n, layout, humanSlot, coinKeys)
    IN {[g EXCEPT !.terrainMap = tm] : tm \in generate(mapType, DOMAIN g.positionMap)}

\* the players of a match that are out already
FallenIds == << "player-10", "player-11", "player-12", "player-13", "player-14",
                "player-15", "player-16", "player-17", "player-18", "player-19" >>

\* A match late on: the n players of initGame still stand, LbFallen more
\* have had their King captured at StartTime (eliminated, the King dead and
\* off the index).  `human` counts through the standing players, then
\* through the fallen ones.
lateGame(mode, n, layout, human) ==
    LET g == initGame(mode, n, layout, IF human <= n THEN human ELSE 1, {})
        base == n * Len(layout)
        fallen == {FallenIds[k] : k \in 1 .. LbFallen}
        indexOf(p) == CHOOSE k \in 1 .. LbFallen : FallenIds[k] = p
    IN [g EXCEPT
          !.players = [p \in DOMAIN g.players \cup fallen |->
                          IF p \in fallen
                          THEN [NewPlayer(human = n + indexOf(p), 0, 0,
                                          <<base + indexOf(p)>>, 0, StartTime)
                                   EXCEPT !.isEliminated = TRUE]
                          ELSE [g.players[p] EXCEPT !.isHuman = (human <= n /\ @)]],
          !.units = [id \in 1 .. (base + LbFallen) |->
                        IF id <= base THEN g.units[id]
                        ELSE [NewUnit(FallenIds[id - base], "KING", 0, 0, 0)
                                 EXCEPT !.isDead = TRUE, !.hp = 0]],
          !.playerOrder = @ \o [k \in 1 .. LbFallen |-> FallenIds[k]],
          !.humanId = IF human <= n THEN @ ELSE FallenIds[human - n],
          !.unitSeq = base + LbFallen]

\* `player-${pid}` for the pids of the 10 x 10 grid, in the order of creation
PlayerIds == << "player-0", "player-1", "player-2", "player-3", "player-4", "player-5",
                "player-6", "player-7", "player-8", "player-9", "player-10", "player-11",
                "player-12", "player-13", "player-14", "player-15", "player-16", "player-17",
                "player-18", "player-19", "player-20", "player-21", "player-22", "player-23",
                "player-24", "player-25", "player-26", "player-27", "player-28", "player-29",
                "player-30", "player-31", "player-32", "player-33", "player-34", "player-35",
                "player-36", "player-37", "player-38", "player-39", "player-40", "player-41",
                "player-42", "player-43", "player-44", "player-45", "player-46", "player-47",
                "player-48", "player-49", "player-50", "player-51", "player-52", "player-53",
                "player-54", "player-55", "player-56", "player-57", "player-58", "player-59",
                "player-60", "player-61", "player-62", "player-63", "player-64", "player-65",
                "player-66", "player-67", "player-68", "player-69", "player-70", "player-71",
                "player-72", "player-73", "player-74", "player-75", "player-76", "player-77",
                "player-78", "player-79", "player-80", "player-81", "player-82", "player-83",
                "player-84", "player-85", "player-86", "player-87", "player-88", "player-89",
                "player-90", "player-91", "player-92", "player-93", "player-94", "player-95",
                "player-96", "player-97", "player-98", "player-99" >>

\* A match with all its hundred players in the map: the n players of
\* initGame stand in the window, the others have their armies away from it
\* (no unit of theirs is in the window, so their rosters are left empty);
\* `alive` players are not eliminated, the standing ones among them.
crowd(mode, n, layout, human, alive) ==
    LET g == initGame(mode, n, layout, human, {})
        away == SelectSeq(PlayerIds, LAMBDA p : p \notin DOMAIN g.players)
        rank(p) == CHOOSE k \in DOMAIN away : away[k] = p
        pidOf(p) == (CHOOSE k \in DOMAIN PlayerIds : PlayerIds[k] = p) - 1
    IN [g EXCEPT
          !.players = [p \in DOMAIN g.players \cup Elems(away) |->
                          IF p \in DOMAIN g.players THEN g.players[p]
                          ELSE [NewPlayer(FALSE, centerXOf(pidOf(p)), centerYOf(pidOf(p)),
                                          << >>, 0, StartTime)
                                   EXCEPT !.isEliminated = (rank(p) > alive - n)]],
          !.playerOrder = @ \o away]

IsState(t) ==
    /\ gameMode = t.gameMode
    /\ units = t.units
    /\ positionMap = t.positionMap
    /\ players = t.players
    /\ playerOrder = t.playerOrder
    /\ humanId = t.humanId
    /\ coins = t.coins
    /\ terrainMap = t.terrainMap
    /\ eventQueue = t.eventQueue
    /\ virtualTime = t.virtualTime
    /\ paused = t.paused
    /\ peaceTimer = t.peaceTimer
    /\ aiUpdateIndex = t.aiUpdateIndex
    /\ isResigned = t.isResigned
    /\ directorPhase = t.directorPhase
    /\ directorRules = t.directorRules
    /\ cachedGameOverStats = t.cachedGameOverStats
    /\ realNow = t.realNow
    /\ lastRealTime = t.lastRealTime
    /\ timeMultiplier = t.timeMultiplier
    /\ unitSeq = t.unitSeq
    /\ isSimulationRunning = t.isSimulationRunning

(* ------------------------------ actions ------------------------------- *)
\* the presentation layer drains the queue every frame; an entry point is
\* taken only while fewer than MaxEvents events wait
QueueOpen == Len(eventQueue) < MaxEvents
CanMint == unitSeq < MaxUnitSeq
UnitIds == 1 .. MaxUnitSeq
\* the tiles the sandbox brush is applied to: the centre and a corner
BrushTiles == {Key(1, 1), Key(0, 0)}
BuyTypes == {"PAWN", "ROOK", "KING"}
SpawnTypes == {"PAWN", "KING"}

\* a frame `delta` of wall time after the last one, at speed 1
Tick(delta, last) ==
    /\ QueueOpen
    /\ virtualTime + delta <= last
    /\ \E t \in tickNow(Later(St, delta)) : Becomes(t)

\* a frame of the render loop, whatever the speed and paused or not
RenderFrame(wait, last) ==
    /\ QueueOpen
    /\ realNow + wait <= last
    /\ \E t \in tickNow(Later(St, wait)) : Becomes(t)

SetPaused == \E p \in BOOLEAN : \E t \in {setPaused(St, p)} : Becomes(t)

\* the Play/Pause button of the sandbox toolbar
onToggleSimulation(s) ==
    IF ActiveMode(s.gameMode) = "SandboxMode"
    THEN setPaused([s EXCEPT !.isSimulationRunning = ~@], s.isSimulationRunning)
    ELSE s

ToggleSimulation == \E t \in {onToggleSimulation(St)} : Becomes(t)

\* the speed button: 1x, 5x, 10x and round again
SetSpeed ==
    \E t \in {[St EXCEPT !.timeMultiplier = IF @ = 1 THEN 5 ELSE IF @ = 5 THEN 10 ELSE 1]} :
        Becomes(t)

\* the canvas selects one of the human's own units and clicks a tile
IssueCommand ==
    /\ QueueOpen
    /\ humanId \in DOMAIN players
    /\ \E uid \in Elems(players[humanId].units), tile \in Tiles :
          Becomes(issueCommand(St, <<uid>>, tile[1], tile[2]))

IssueCommandGroup ==
    /\ QueueOpen
    /\ humanId \in DOMAIN players
    /\ \E i, j \in DOMAIN players[humanId].units, tile \in Tiles :
          /\ i < j
          /\ Becomes(issueCommand(St, <<players[humanId].units[i],
                                        players[humanId].units[j]>>, tile[1], tile[2]))

BuyUnit ==
    /\ QueueOpen
    /\ CanMint
    /\ \E p \in DOMAIN players, type \in BuyTypes, tile \in Tiles :
          Becomes(buyUnit(St, p, type, tile[1], tile[2]))

Resign ==
    /\ QueueOpen
    /\ Becomes(resign(St))

SpawnUnitRaw ==
    /\ QueueOpen
    /\ CanMint
    /\ \E p \in DOMAIN players, type \in SpawnTypes, tile \in BrushTiles :
          Becomes(spawnUnitRaw(St, tile[1], tile[2], type, p))

RemoveUnitAt ==
    /\ QueueOpen
    /\ \E tile \in BrushTiles : Becomes(removeUnitAt(St, tile[1], tile[2]))

\* the Clear button of the sandbox toolbar
ClearMap == \E t \in {clearMap(St)} : Becomes(t)

ConsumeEvents == \E t \in {consumeEvents(St)} : Becomes(t)

\* the diplomacy calls are made for two different players
FormAlliance ==
    /\ QueueOpen
    /\ \E a, b \in DOMAIN players : a # b /\ Becomes(formAlliance(St, a, b))

DeclareWar ==
    /\ QueueOpen
    /\ \E a, b \in DOMAIN players : a # b /\ Becomes(declareWar(St, a, b))

HandleAllianceRequest ==
    /\ QueueOpen
    /\ \E a, b \in DOMAIN players, accept \in BOOLEAN :
          a # b /\ Becomes(handleAllianceRequest(St, a, b, accept))

BreakAlliance ==
    /\ QueueOpen
    /\ \E a, b \in DOMAIN players : a # b /\ Becomes(breakAlliance(St, a, b))

CheckGameOver == \E t \in {checkGameOver(St)} : Becomes(t)

\* initGame() called again on the running engine: the clock is not reset
InitGame ==
    \E h \in 1 .. StdPlayers :
        \E t \in {[initGame(gameMode, StdPlayers, SmallArmy, h, {}) EXCEPT
                       !.virtualTime = virtualTime, !.realNow = realNow,
                       !.lastRealTime = lastRealTime]} : Becomes(t)

\* the values of GameConfig.gameMode
GameModes == {"STANDARD", "BULLET", "SINGULARITY", "DIPLOMACY", "ZOMBIES", "SANDBOX",
              "ADVENTURE"}

\* new GameEngine(config) followed by initGame(), as the app starts a match:
\* the constructor reads the wall clock
newGame(s, mode, humanSlot) ==
    [initGame(mode, StdPlayers, SmallArmy, humanSlot, {}) EXCEPT
        !.virtualTime = s.realNow, !.realNow = s.realNow, !.lastRealTime = s.realNow]

NewGame ==
    \E mode \in GameModes, h \in 1 .. StdPlayers :
        \E t \in {newGame(St, mode, h)} : Becomes(t)

\* back to the menu: initAttractMode() on the engine at hand
InitAttractMode == \E t \in {initAttractMode(St, SmallArmy)} : Becomes(t)

(* --------------------------- specifications --------------------------- *)
MaxTicks == 1

LastFrame == StartTime + MaxTicks * Frame

\* Standard mode, two players with a King and a Pawn each
Init ==
    \E h \in 1 .. StdPlayers :
        IsState(initGame("STANDARD", StdPlayers, SmallArmy, h, {}))

Next ==
    \/ Tick(Frame, LastFrame)
    \/ IssueCommand
    \/ IssueCommandGroup
    \/ BuyUnit
    \/ Resign
    \/ SpawnUnitRaw
    \/ RemoveUnitAt
    \/ ConsumeEvents

Spec == Init /\ [][Next]_vars

\* Zombies mode: the same commands, the ZOMBIES team added by initGame
InitZombies ==
    \E h \in 1 .. StdPlayers, c \in CoinChoices :
        IsState(initGame("ZOMBIES", StdPlayers, SmallArmy, h, c))

SpecZombies == InitZombies /\ [][Next]_vars

\* Diplomacy mode: three Kings, the armistice running, the diplomacy calls
\* the human sits in the middle slot, within reach of both neighbours
InitDiplomacy == IsState(initGame("DIPLOMACY", DipPlayers, KingOnly, 2, {}))

NextDiplomacy ==
    \/ Tick(Frame, LastFrame)
    \/ Tick(PEACE_DURATION, LastFrame + PEACE_DURATION)
    \/ IssueCommand
    \/ ConsumeEvents
    \/ FormAlliance
    \/ DeclareWar
    \/ HandleAllianceRequest
    \/ BreakAlliance

SpecDiplomacy == InitDiplomacy /\ [][NextDiplomacy]_vars

\* Standard mode on a FROZEN map: walls, water and snow around the armies
InitTerrain ==
    \E h \in 1 .. StdPlayers :
        \E t \in initGameOnMap("STANDARD", StdPlayers, SmallArmy, h, {}, "FROZEN") :
            IsState(t)

NextTerrain ==
    \/ Tick(Frame, LastFrame)
    \/ IssueCommand
    \/ BuyUnit
    \/ ConsumeEvents

SpecTerrain == InitTerrain /\ [][NextTerrain]_vars

\* Standard mode with the clock running on: a frame, or a pause of a whole
\* cooldown, so that a unit gets to move a second time
InitCooldown ==
    \E h \in 1 .. StdPlayers :
        IsState(initGame("STANDARD", StdPlayers, SmallArmy, h, {}))

NextCooldown ==
    \/ Tick(Frame, LastFrame)
    \/ Tick(2 * Frame, LastFrame + 2 * Frame)
    \/ IssueCommand
    \/ BuyUnit
    \/ ConsumeEvents

SpecCooldown == InitCooldown /\ [][NextCooldown]_vars

\* A match as the render loop drives it: checkGameOver between the frames,
\* and a new match started from the game-over screen
InitGameOver ==
    \E h \in 1 .. StdPlayers, mode \in {"STANDARD", "ZOMBIES"} :
        IsState(initGame(mode, StdPlayers, SmallArmy, h, {}))

NextGameOver ==
    \/ Tick(Frame, LastFrame + 2 * Frame)
    \/ IssueCommand
    \/ Resign
    \/ ConsumeEvents
    \/ CheckGameOver
    \/ InitGame

SpecGameOver == InitGameOver /\ [][NextGameOver]_vars

\* Standard mode late in a match: two armies left among nine players
InitLeaderboard ==
    \E h \in 1 .. (StdPlayers + LbFallen) :
        IsState(lateGame("STANDARD", StdPlayers, SmallArmy, h))

NextLeaderboard ==
    \/ Tick(Frame, LastFrame)
    \/ IssueCommand
    \/ Resign
    \/ ConsumeEvents

SpecLeaderboard == InitLeaderboard /\ [][NextLeaderboard]_vars

\* A match late on with nine player slots, two of them still standing, run
\* for RrTicks frames with pauses between them
RrTicks == 7

InitRoundRobin ==
    \E h \in 1 .. StdPlayers :
        IsState(lateGame("STANDARD", StdPlayers, KingOnly, h))

NextRoundRobin ==
    \/ RenderFrame(Frame, StartTime + RrTicks * Frame)
    \/ SetPaused
    \/ IssueCommand
    \/ ConsumeEvents

SpecRoundRobin == InitRoundRobin /\ [][NextRoundRobin]_vars

\* A full match at the player counts on either side of the director's
\* thresholds, two Kings in the window
AliveCounts == {2, 20, 21, 40, 41, 60, 61, 100}

InitDirector ==
    \E h \in 1 .. StdPlayers, alive \in AliveCounts :
        IsState(crowd("STANDARD", StdPlayers, KingOnly, h, alive))

NextDirector ==
    \/ Tick(Frame, LastFrame + 2 * Frame)
    \/ IssueCommand
    \/ ConsumeEvents

SpecDirector == InitDirector /\ [][NextDirector]_vars

\* Matches started one after the other in any mode, the menu's background
\* battle between them
InitMatches ==
    \E mode \in GameModes, h \in 1 .. StdPlayers :
        IsState(initGame(mode, StdPlayers, SmallArmy, h, {}))

NextMatches ==
    \/ RenderFrame(Frame, LastFrame + Frame)
    \/ Resign
    \/ ConsumeEvents
    \/ NewGame
    \/ InitAttractMode

SpecMatches == InitMatches /\ [][NextMatches]_vars

\* The sandbox editor: the brush, the eraser, the Clear button and the
\* Play/Pause button, the render loop running all the while
InitSandbox == IsState(initGame("SANDBOX", StdPlayers, KingOnly, 1, {}))

NextSandbox ==
    \/ RenderFrame(Frame, LastFrame)
    \/ SpawnUnitRaw
    \/ RemoveUnitAt
    \/ ClearMap
    \/ ToggleSimulation
    \/ ConsumeEvents

SpecSandbox == InitSandbox /\ [][NextSandbox]_vars

\* Diplomacy mode with the pause button: short frames, and one as long as
\* the armistice
NextArmistice ==
    \/ RenderFrame(Frame, LastFrame + Frame)
    \/ RenderFrame(PEACE_DURATION, LastFrame + Frame + PEACE_DURATION)
    \/ SetPaused
    \/ ConsumeEvents

SpecArmistice == InitDiplomacy /\ [][NextArmistice]_vars

\* Standard mode with the pause button and the speed button
NextPause ==
    \/ RenderFrame(Frame, LastFrame + 2 * Frame)
    \/ SetPaused
    \/ SetSpeed
    \/ ConsumeEvents

SpecPause == Init /\ [][NextPause]_vars


(* ----------------------------- properties ----------------------------- *)
LiveUnits == {id \in DOMAIN units : ~units[id].isDead}
Indexed(pm) == {pm[k] : k \in DOMAIN pm}

\* C1: every live unit is the positionMap entry of its own tile, and no
\* dead unit is the value of any positionMap entry.
SpatialIndexBijection ==
    \A id \in DOMAIN units :
        /\ ~units[id].isDead => MapGet(positionMap, Key(units[id].x, units[id].y)) = id
        /\ units[id].isDead => id \notin Indexed(positionMap)

\* a live unit `uid`, off cooldown, with a valid move onto the tile of the
\* live King `kid` of another player
KingUnderAttack(uid, kid) ==
    /\ uid \in LiveUnits
    /\ Key(units[kid].x, units[kid].y) \in getValidMoves(St, units[uid], virtualTime, TRUE)
    /\ kid \in LiveUnits
    /\ units[kid].type = "KING"
    /\ units[kid].hp = 1
    /\ units[uid].ownerId # units[kid].ownerId
    /\ units[uid].ownerId \in DOMAIN players
    /\ units[kid].ownerId \in DOMAIN players
    /\ MapGet(positionMap, Key(units[kid].x, units[kid].y)) = kid

AfterCapture(uid, kid) ==
    moveUnitInternal(St, uid, units[kid].x, units[kid].y, virtualTime)

\* the roster of `owner` as it stands before the call
RosterUnits(owner) == Elems(players[owner].units) \cap DOMAIN units

\* C2: in Standard mode, moving an enemy unit onto a live King's tile
\* leaves, within that call, the King and every unit of its owner's roster
\* dead and out of positionMap, the owner eliminated, and the attacking
\* owner's kingsKilled one higher.
KingCaptureCascades ==
    gameMode = "STANDARD" =>
        \A uid, kid \in DOMAIN units :
            KingUnderAttack(uid, kid) =>
                LET t == AfterCapture(uid, kid)
                    owner == units[kid].ownerId
                    killer == units[uid].ownerId
                IN /\ \A r \in RosterUnits(owner) \cup {kid} :
                        /\ t.units[r].isDead
                        /\ r \notin Indexed(t.positionMap)
                   /\ t.players[owner].isEliminated
                   /\ t.players[killer].kingsKilled = players[killer].kingsKilled + 1

\* C2 has happened: a King of a two-unit roster was captured, the roster
\* is dead and the capturing player holds the kill.
KingCaptured ==
    /\ gameMode = "STANDARD"
    /\ \E owner, killer \in DOMAIN players :
          /\ owner # killer
          /\ players[owner].isEliminated
          /\ players[killer].kingsKilled = 1
          /\ players[killer].kills >= 1
          /\ Len(players[owner].units) >= 2
          /\ \A r \in RosterUnits(owner) : units[r].isDead
          /\ \E r \in RosterUnits(owner) : units[r].type = "KING"
          /\ ~isResigned

\* C3: in every mode, when an enemy capture takes a King, the owner is
\* flagged eliminated and no unit of its roster stays alive under it.
KingLossEliminates ==
    \A uid, kid \in DOMAIN units :
        (KingUnderAttack(uid, kid) /\ canAttack(St, units[uid], units[kid])) =>
            LET t == AfterCapture(uid, kid)
                owner == units[kid].ownerId
            IN /\ t.players[owner].isEliminated
               /\ \A r \in DOMAIN t.units :
                     t.units[r].ownerId = owner => t.units[r].isDead


\* a live zombie-owned unit `uid`, off cooldown, with a valid move onto the
\* tile of the live, non-zombie, 1-HP unit `vid`
ZombieUnderAttack(uid, vid) ==
    /\ gameMode = "ZOMBIES"
    /\ uid \in LiveUnits
    /\ vid \in LiveUnits
    /\ units[uid].ownerId = ZOMBIE_TEAM_ID
    /\ ~units[vid].isZombie
    /\ units[vid].ownerId # ZOMBIE_TEAM_ID
    /\ units[vid].ownerId \in DOMAIN players
    /\ units[vid].hp = 1
    /\ MapGet(positionMap, Key(units[vid].x, units[vid].y)) = vid
    /\ Key(units[vid].x, units[vid].y) \in getValidMoves(St, units[uid], virtualTime, TRUE)

\* the events a call added to the queue
Queued(t) == {t.eventQueue[i] : i \in (Len(eventQueue) + 1) .. Len(t.eventQueue)}

\* C10: in Zombies mode a capture by a zombie-owned unit converts the
\* victim (isZombie, owned by the zombie faction, alive, hp 1, moved from
\* its old roster to the zombie roster) and gives the attacker's owner no
\* credits, score or kills, and queues no coin-pickup event.
ZombieConversionSuppressesLoot ==
    \A uid, vid \in DOMAIN units :
        ZombieUnderAttack(uid, vid) =>
            LET t == moveUnitInternal(St, uid, units[vid].x, units[vid].y, virtualTime)
                oldOwner == units[vid].ownerId
                zBefore == players[ZOMBIE_TEAM_ID]
                zAfter == t.players[ZOMBIE_TEAM_ID]
            IN /\ t.units[vid].isZombie
               /\ t.units[vid].ownerId = ZOMBIE_TEAM_ID
               /\ ~t.units[vid].isDead
               /\ t.units[vid].hp = 1
               /\ ~Includes(t.players[oldOwner].units, vid)
               /\ Includes(zAfter.units, vid)
               /\ zAfter.credits = zBefore.credits
               /\ zAfter.totalCollected = zBefore.totalCollected
               /\ zAfter.materialScore = zBefore.materialScore
               /\ zAfter.kills = zBefore.kills
               /\ zAfter.kingsKilled = zBefore.kingsKilled
               /\ \A e \in Queued(t) : e.type # "COIN_PICKUP"

\* C10 has happened: a unit that started in a player's army stands
\* converted in the zombie roster, and the zombie team holds no reward.
ZombieConverted ==
    /\ gameMode = "ZOMBIES"
    /\ \E vid \in LiveUnits :
          /\ units[vid].isZombie
          /\ units[vid].ownerId = ZOMBIE_TEAM_ID
          /\ units[vid].hp = 1
          /\ Includes(players[ZOMBIE_TEAM_ID].units, vid)
          /\ \A p \in DOMAIN players \ {ZOMBIE_TEAM_ID} : ~Includes(players[p].units, vid)
    /\ players[ZOMBIE_TEAM_ID].credits = 0
    /\ players[ZOMBIE_TEAM_ID].kills = 0


(* Diplomacy *)
Allies(p) == Elems(players[p].allies)
Enemies(p) == Elems(players[p].enemies)
Pack(p) == {p} \cup Allies(p)

\* C4: in Diplomacy mode no player id is in both the allies list and the
\* enemies list of the same player.
AlliesEnemiesDisjoint ==
    gameMode = "DIPLOMACY" =>
        \A p \in DOMAIN players : Allies(p) \cap Enemies(p) = {}

\* C5: alliance membership is symmetric, and transitive between distinct
\* players.
AllianceSymmetricTransitive ==
    \A a, b \in DOMAIN players :
        /\ (b \in Allies(a)) <=> (a \in Allies(b))
        /\ \A c \in DOMAIN players :
              (b \in Allies(a) /\ c \in Allies(b) /\ c # a) => c \in Allies(a)

\* C5 has happened: three players stand in one alliance, two of them too
\* far apart to have allied directly.
AllianceOfThree ==
    \E a, b, c \in DOMAIN players :
        /\ a # b /\ b # c /\ a # c
        /\ Allies(a) = {b, c}
        /\ Allies(b) = {a, c}
        /\ Allies(c) = {a, b}
        /\ FartherThanThreshold(St, a, c)

\* formAlliance's gates: both exist, neither eliminated, centres within 80
AllianceGates(a, b) ==
    /\ a \in DOMAIN players
    /\ b \in DOMAIN players
    /\ a # b
    /\ ~players[a].isEliminated
    /\ ~players[b].isEliminated
    /\ ~FartherThanThreshold(St, a, b)

\* C6: after a formAlliance(A, B) that passes its gates, with G the two
\* parties and their allies of before, every member M of G has allies equal
\* to G minus M, and no member of G is in the enemies of a member of G.
AllianceClosure ==
    \A a, b \in DOMAIN players :
        AllianceGates(a, b) =>
            LET t == formAlliance(St, a, b)
                G == {a, b} \cup Allies(a) \cup Allies(b)
            IN \A m \in G :
                  /\ Elems(t.players[m].allies) = G \ {m}
                  /\ Elems(t.players[m].enemies) \cap G = {}

\* C6 has happened: a group of three has been merged, each member lists
\* the other two and none lists a member as an enemy.
MergedGroup ==
    \E a \in DOMAIN players :
        /\ Cardinality(Allies(a)) = 2
        /\ \A m \in Pack(a) : Allies(m) = Pack(a) \ {m} /\ Enemies(m) \cap Pack(a) = {}
        /\ \A m \in Pack(a) : Len(players[m].allies) = 2

\* C7: in Diplomacy mode, with A and B existing and within the proximity
\* threshold, after declareWar(A, B) every member of A's pack lists every
\* (other) member of B's pack as an enemy, and the other way round.
WarPropagates ==
    gameMode = "DIPLOMACY" =>
        \A a, b \in DOMAIN players :
            (a # b /\ ~FartherThanThreshold(St, a, b)) =>
                LET t == declareWar(St, a, b)
                IN \A m \in Pack(a), n \in Pack(b) :
                      m # n => /\ Includes(t.players[m].enemies, n)
                               /\ Includes(t.players[n].enemies, m)


\* two units of different players that are not allied either way
Strangers(uid, vid) ==
    /\ units[uid].ownerId # units[vid].ownerId
    /\ ~isAlly(St, units[uid].ownerId, units[vid].ownerId)
    /\ ~isAlly(St, units[vid].ownerId, units[uid].ownerId)

\* neither owner lists the other as ally or enemy
NoHistory(uid, vid) ==
    LET a == units[uid].ownerId
        b == units[vid].ownerId
    IN /\ a \in DOMAIN players
       /\ b \in DOMAIN players
       /\ b \notin Allies(a) \cup Enemies(a)
       /\ a \notin Allies(b) \cup Enemies(b)

\* C8: in Diplomacy mode, while peaceTimer > 0 canAttack is false for every
\* pair of units of two different non-allied players, and a move onto the
\* other's tile leaves it unharmed; once peaceTimer is 0, canAttack is true
\* for such a pair when the players have no alliance or war history.
ArmisticeBlocksCombat ==
    gameMode = "DIPLOMACY" =>
        \A uid, vid \in DOMAIN units :
            Strangers(uid, vid) =>
                /\ peaceTimer > 0 =>
                      /\ ~canAttack(St, units[uid], units[vid])
                      /\ (uid \in LiveUnits /\ vid \in LiveUnits) =>
                            LET t == moveUnitInternal(St, uid, units[vid].x, units[vid].y,
                                                      virtualTime)
                            IN t.units[vid] = units[vid]
                /\ (peaceTimer = 0 /\ NoHistory(uid, vid)) =>
                      canAttack(St, units[uid], units[vid])

\* C8 has happened: the armistice has run out and two live units of
\* players without history face each other.
ArmisticeOver ==
    /\ gameMode = "DIPLOMACY"
    /\ peaceTimer = 0
    /\ virtualTime >= StartTime + PEACE_DURATION
    /\ \E uid, vid \in LiveUnits : Strangers(uid, vid) /\ NoHistory(uid, vid)

\* the unit `uid` as a piece of another type on the same tile
AsType(uid, type) == [units[uid] EXCEPT !.type = type]

\* C9: in Diplomacy mode no move of a unit kills or damages a unit whose
\* owner is listed as an ally by the mover's owner, and getValidMoves offers
\* no tile that holds a live unit of an ally.
AlliesNeverAttacked ==
    gameMode = "DIPLOMACY" =>
        \A uid \in LiveUnits :
            /\ \A tile \in Tiles :
                  LET t == moveUnitInternal(St, uid, tile[1], tile[2], virtualTime)
                  IN \A vid \in DOMAIN units :
                        isAlly(St, units[uid].ownerId, units[vid].ownerId) =>
                            /\ t.units[vid].hp = units[vid].hp
                            /\ t.units[vid].isDead = units[vid].isDead
            /\ \A type \in UnitTypes :
                  \A tile \in getValidMoves(St, AsType(uid, type), virtualTime, FALSE) :
                      LET occ == MapGet(positionMap, tile)
                      IN (occ \in LiveUnits) =>
                            ~isAlly(St, units[uid].ownerId, units[occ].ownerId)

\* C9 has happened: the armistice is over and a live unit stands on a tile
\* next to a live unit of an ally, where an enemy would be a capture.
AllyInReach ==
    /\ gameMode = "DIPLOMACY"
    /\ peaceTimer = 0
    /\ \E uid, vid \in LiveUnits :
          /\ isAlly(St, units[uid].ownerId, units[vid].ownerId)
          /\ Abs(units[uid].x - units[vid].x) <= 1
          /\ Abs(units[uid].y - units[vid].y) <= 1
          /\ units[uid].lastMoveTime > 0


\* C11: consumeEvents returns the queued events in the order they were
\* emitted and empties the queue; a second consumeEvents right after it
\* returns the empty list.
EventDraining ==
    LET first == consumeEvents_returns(St)
        s1 == consumeEvents(St)
        second == consumeEvents_returns(s1)
    IN /\ Len(first) = Len(eventQueue)
       /\ \A i \in 1 .. Len(eventQueue) : first[i] = eventQueue[i]
       /\ s1.eventQueue = << >>
       /\ second = << >>
       /\ consumeEvents(s1) = s1

\* C11 has happened: a capture queued its reward and death events, in that
\* order, and the queue has since been drained.
EventsDrained ==
    /\ eventQueue = << >>
    /\ \E p \in DOMAIN players : players[p].kills >= 1


IsDiagonal(x, y, tile) == Abs(tile[1] - x) = 1 /\ Abs(tile[2] - y) = 1
IsCardinal(x, y, tile) == Abs(tile[1] - x) + Abs(tile[2] - y) = 1

\* the tile holds a live unit of a different owner that `owner` does not
\* list as an ally
HoldsEnemyOf(owner, tile) ==
    LET occ == MapGet(positionMap, tile)
    IN /\ occ \in LiveUnits
       /\ units[occ].ownerId # owner
       /\ ~isAlly(St, owner, units[occ].ownerId)

\* C12: the move list of a pawn, on any tile a unit stands on, holds a
\* diagonal neighbour only if that tile holds a unit of a different,
\* non-allied owner, and a cardinal neighbour only if that tile is
\* unoccupied; it holds nothing else.
PawnAsymmetry ==
    \A uid \in DOMAIN units :
        LET pawn == AsType(uid, "PAWN")
        IN \A tile \in getValidMoves(St, pawn, virtualTime, FALSE) :
              /\ IsDiagonal(pawn.x, pawn.y, tile) \/ IsCardinal(pawn.x, pawn.y, tile)
              /\ IsDiagonal(pawn.x, pawn.y, tile) => HoldsEnemyOf(pawn.ownerId, tile)
              /\ IsCardinal(pawn.x, pawn.y, tile) => ~MapHas(positionMap, tile)

\* C12 has happened: a pawn there would have an enemy on a cardinal
\* neighbour (not offered), an ally on a diagonal neighbour (not offered)
\* and an empty cardinal neighbour (offered).
PawnFacesAll ==
    \E uid \in LiveUnits :
        LET pawn == AsType(uid, "PAWN")
            moves == getValidMoves(St, pawn, virtualTime, FALSE)
        IN /\ \E tile \in Tiles \ moves :
                 IsCardinal(pawn.x, pawn.y, tile) /\ HoldsEnemyOf(pawn.ownerId, tile)
           /\ \E tile \in Tiles \ moves :
                 /\ IsDiagonal(pawn.x, pawn.y, tile)
                 /\ MapGet(positionMap, tile) \in LiveUnits
                 /\ isAlly(St, pawn.ownerId, units[MapGet(positionMap, tile)].ownerId)
           /\ \E tile \in moves : IsCardinal(pawn.x, pawn.y, tile)

Sliders == {"ROOK", "BISHOP", "QUEEN"}
SliderDirs(type) ==
    (IF type \in {"ROOK", "QUEEN"} THEN RookDirs ELSE {})
        \cup (IF type \in {"BISHOP", "QUEEN"} THEN BishopDirs ELSE {})
RayTile(x, y, d, i) == Key(x + d[1] * i, y + d[2] * i)
Stops(tile) == MapHas(positionMap, tile) \/ isBlocking(terrainMap, tile[1], tile[2])

\* C13: for a Rook, Bishop or Queen standing where any live unit stands,
\* every tile getValidMoves returns lies on one of the piece's rays, at most
\* MoveRange steps out, with no occupied tile and no blocking-terrain tile
\* strictly before it on that ray; an occupied tile is returned only when
\* its occupant belongs to a different owner that is not an ally.
SlidingPieceBlocking ==
    \A uid \in LiveUnits, type \in Sliders :
        LET piece == AsType(uid, type)
        IN \A tile \in getValidMoves(St, piece, virtualTime, FALSE) :
              /\ \E d \in SliderDirs(type), i \in 1 .. MoveRange :
                    /\ tile = RayTile(piece.x, piece.y, d, i)
                    /\ \A j \in 1 .. (i - 1) : ~Stops(RayTile(piece.x, piece.y, d, j))
              /\ MapHas(positionMap, tile) => HoldsEnemyOf(piece.ownerId, tile)

\* a ray cut by terrain, a ray cut by a unit of the same owner, and a ray
\* that ends on an enemy unit, each with a free tile behind the cut
RaysCut ==
    /\ eventQueue # << >>
    /\ \E uid \in LiveUnits, d \in RookDirs \cup BishopDirs :
          LET piece == AsType(uid, "QUEEN")
              one == RayTile(piece.x, piece.y, d, 1)
              two == RayTile(piece.x, piece.y, d, 2)
          IN /\ two \in Tiles /\ ~Stops(two)
             /\ isBlocking(terrainMap, one[1], one[2])
             /\ ~MapHas(positionMap, one)
             /\ two \notin getValidMoves(St, piece, virtualTime, FALSE)
    /\ \E uid \in LiveUnits, d \in RookDirs \cup BishopDirs :
          LET piece == AsType(uid, "QUEEN")
              one == RayTile(piece.x, piece.y, d, 1)
              two == RayTile(piece.x, piece.y, d, 2)
          IN /\ two \in Tiles /\ ~Stops(two)
             /\ MapHas(positionMap, one) /\ ~HoldsEnemyOf(piece.ownerId, one)
             /\ one \notin getValidMoves(St, piece, virtualTime, FALSE)
             /\ two \notin getValidMoves(St, piece, virtualTime, FALSE)
    /\ \E uid \in LiveUnits, d \in RookDirs \cup BishopDirs :
          LET piece == AsType(uid, "QUEEN")
              one == RayTile(piece.x, piece.y, d, 1)
              two == RayTile(piece.x, piece.y, d, 2)
          IN /\ two \in Tiles /\ ~Stops(two)
             /\ HoldsEnemyOf(piece.ownerId, one)
             /\ one \in getValidMoves(St, piece, virtualTime, FALSE)
             /\ two \notin getValidMoves(St, piece, virtualTime, FALSE)

MovedUnitsOffTerrain(t) ==
    \A id \in DOMAIN units :
        (t.units[id].x # units[id].x \/ t.units[id].y # units[id].y)
            => ~isBlocking(t.terrainMap, t.units[id].x, t.units[id].y)

\* C14: whatever its type, a unit is never offered a Wall or Water tile by
\* getValidMoves, and every unit whose position is changed by an
\* issueCommand call or by the bot turns of a tick stands on a tile that is
\* not blocking afterwards.
NoMoveOntoBlocking ==
    /\ \A uid \in LiveUnits, type \in UnitTypes :
          \A tile \in getValidMoves(St, AsType(uid, type), virtualTime, FALSE) :
              ~isBlocking(terrainMap, tile[1], tile[2])
    /\ \A uid \in DOMAIN units, tile \in Tiles :
          MovedUnitsOffTerrain(issueCommand(St, <<uid>>, tile[1], tile[2]))
    /\ \A t \in tick(St, Frame) : MovedUnitsOffTerrain(t)

\* a unit that has moved stands next to a free Wall or Water tile; as a
\* King it is not offered the tile and a command to go there is ignored
BlockedNeighbour ==
    \E uid \in LiveUnits, d \in Neighbours :
        LET x == units[uid].x + d[1]
            y == units[uid].y + d[2]
        IN /\ units[uid].lastMoveTime > 0
           /\ units[uid].type = "KING"
           /\ InBoard(x, y)
           /\ isBlocking(terrainMap, x, y)
           /\ ~MapHas(positionMap, Key(x, y))
           /\ Key(x, y) \notin getValidMoves(St, units[uid], virtualTime, FALSE)
           /\ issueCommand(St, <<uid>>, x, y) = St

Acted(t, uid) ==
    \/ t.units[uid].x # units[uid].x
    \/ t.units[uid].y # units[uid].y
    \/ t.units[uid].lastMoveTime # units[uid].lastMoveTime

\* a unit that acts does so a cooldown or more after its last action, and
\* the time of this action is then its lastMoveTime
Gated(t, uid) ==
    Acted(t, uid) =>
        /\ t.virtualTime - units[uid].lastMoveTime >= getUnitCooldown(St, units[uid].type)
        /\ t.units[uid].lastMoveTime = t.virtualTime

Waits(type) == {0, Frame, getUnitCooldown(St, type) - 1}

\* C15: a unit moves or captures, by issueCommand or in a bot turn, only
\* when getUnitCooldown(type) or more of virtual time has passed since its
\* lastMoveTime, and the action sets lastMoveTime to its own time, so two
\* consecutive actions of a unit are a cooldown apart; the cooldown is
\* half of COOLDOWNS[type] in Bullet mode; a unit bought with buyUnit has
\* its purchase time as lastMoveTime and, for less than a cooldown after
\* it, has no valid move and ignores every command.
CooldownGating ==
    /\ \A uid \in DOMAIN units, tile \in Tiles :
          Gated(issueCommand(St, <<uid>>, tile[1], tile[2]), uid)
    /\ \A delta \in {Frame, 2 * Frame} : \A t \in tick(St, delta) :
          \A uid \in DOMAIN units : Gated(t, uid)
    /\ \A type \in UnitTypes :
          /\ 2 * getUnitCooldown([St EXCEPT !.gameMode = "BULLET"], type) = COOLDOWNS(type)
          /\ getUnitCooldown(St, type) = COOLDOWNS(type)
    /\ \A p \in DOMAIN players, type \in BuyTypes, tile \in Tiles :
          LET t == buyUnit(St, p, type, tile[1], tile[2])
              id == FreshId(St)
          IN t # St =>
                /\ t.units[id].lastMoveTime = virtualTime
                /\ \A wait \in Waits(type) :
                      LET later == [t EXCEPT !.virtualTime = @ + wait]
                      IN /\ getValidMoves(later, later.units[id], later.virtualTime, TRUE) = {}
                         /\ \A dest \in Tiles :
                               issueCommand(later, <<id>>, dest[1], dest[2]) = later

FirstArmy == initGame("STANDARD", StdPlayers, SmallArmy, 1, {}).units

\* a King two tiles from where it started, so on its second move at least,
\* and a bought unit that has a free tile to go to but is still waiting
MovedTwice ==
    /\ \E uid \in DOMAIN FirstArmy :
          /\ ~units[uid].isDead
          /\ units[uid].type = "KING"
          /\ \/ Abs(units[uid].x - FirstArmy[uid].x) = 2
             \/ Abs(units[uid].y - FirstArmy[uid].y) = 2
          /\ units[uid].lastMoveTime >= StartTime + getUnitCooldown(St, "KING")
    /\ \E id \in LiveUnits \ DOMAIN FirstArmy :
          /\ virtualTime - units[id].lastMoveTime < getUnitCooldown(St, units[id].type)
          /\ getValidMoves(St, units[id], virtualTime, FALSE) # {}
          /\ getValidMoves(St, units[id], virtualTime, TRUE) = {}

Reinitialized(t) ==
    \E h \in 1 .. StdPlayers :
        t = [initGame(gameMode, StdPlayers, SmallArmy, h, {}) EXCEPT
                !.virtualTime = virtualTime, !.realNow = realNow,
                !.lastRealTime = lastRealTime]

\* C16: while cachedGameOverStats holds a result, checkGameOver returns
\* that very result and changes nothing, and no step of the engine (tick,
\* command, resignation, elimination, drain) alters the cached result; only
\* initGame puts it back to null.
GameOverAbsorbing ==
    /\ [](cachedGameOverStats # NoStats =>
            /\ checkGameOver_returns(St) = cachedGameOverStats
            /\ checkGameOver(St) = St)
    /\ [][cachedGameOverStats # NoStats =>
            \/ cachedGameOverStats' = cachedGameOverStats
            \/ cachedGameOverStats' = NoStats /\ Reinitialized(St')]_vars

\* a result cached before the last tick, which a fresh computation would
\* no longer give
StaleStatsServed ==
    /\ cachedGameOverStats # NoStats
    /\ StartTime + 1000 * cachedGameOverStats.timeSurvived < virtualTime
    /\ ComputeGameOver(St) # cachedGameOverStats
    /\ checkGameOver_returns(St) = cachedGameOverStats

HumanEliminated == humanId \in DOMAIN players /\ players[humanId].isEliminated
SoleSurvivor ==
    {p \in DOMAIN players : ~players[p].isEliminated /\ p # ZOMBIE_TEAM_ID} = {humanId}
Terminal == HumanEliminated \/ isResigned \/ SoleSurvivor

\* C17 as stated: checkGameOver returns a result exactly when the human is
\* eliminated, has resigned or is the only agent not eliminated (the zombie
\* faction apart); a result with isWin has the human as that only agent,
\* and a result with isResignation comes after resign().
TerminalConditions ==
    LET r == checkGameOver_returns(St)
    IN /\ (r # NoStats) <=> Terminal
       /\ (r # NoStats /\ r.isWin) => SoleSurvivor
       /\ (r # NoStats /\ r.isResignation) => isResigned

\* C17, amended: checkGameOver returns a result exactly when the human is
\* eliminated, has resigned or is the only agent not eliminated (the zombie
\* faction apart); a result computed now has isWin exactly when the human
\* is that only agent, and a cached one keeps the isWin it was computed
\* with; a result with isResignation comes after resign().
TerminalConditionsAtFirstResult ==
    LET r == checkGameOver_returns(St)
    IN /\ (r # NoStats) <=> Terminal
       /\ (cachedGameOverStats = NoStats /\ r # NoStats) =>
              (r.isWin <=> (SoleSurvivor /\ ~HumanEliminated /\ ~isResigned))
       /\ cachedGameOverStats # NoStats => r = cachedGameOverStats
       /\ (r # NoStats /\ r.isResignation) => isResigned

\* the human was the last agent standing beside the zombie faction, the
\* win was cached, and the human has resigned since
WinKeptAfterResign ==
    /\ ZOMBIE_TEAM_ID \in DOMAIN players
    /\ ~players[ZOMBIE_TEAM_ID].isEliminated
    /\ cachedGameOverStats # NoStats
    /\ cachedGameOverStats.isWin
    /\ isResigned
    /\ ~SoleSurvivor
    /\ checkGameOver_returns(St) = cachedGameOverStats

Board == getLeaderboard(St)
Standing(p) == ~players[p].isEliminated
InOrder(a, b) ==
    \/ Standing(a.playerId) /\ ~Standing(b.playerId)
    \/ /\ Standing(a.playerId) = Standing(b.playerId)
       /\ \/ a.score > b.score
          \/ /\ a.score = b.score
             /\ players[a.playerId].lastScoreTime >= players[b.playerId].lastScoreTime

\* C18 as stated: at most 8 entries, every one of an agent that is not
\* eliminated, in descending order of live material score, equal scores in
\* the order of the more recent lastScoreTime, and the human's entry among
\* them.
Leaderboard ==
    /\ Len(Board) <= LeaderboardSize
    /\ \A i \in DOMAIN Board :
          /\ Standing(Board[i].playerId)
          /\ Board[i].score = currentScore(St, Board[i].playerId)
    /\ \A i, j \in DOMAIN Board :
          i < j => \/ Board[i].score > Board[j].score
                   \/ /\ Board[i].score = Board[j].score
                      /\ players[Board[i].playerId].lastScoreTime
                            >= players[Board[j].playerId].lastScoreTime
    /\ humanId \in DOMAIN players => \E i \in DOMAIN Board : Board[i].playerId = humanId

\* C18, amended: at most 8 entries, of distinct agents; the agents not
\* eliminated come first, in descending order of live material score,
\* equal scores in the order of the more recent lastScoreTime; eliminated
\* agents, with score 0 and the more recently scored first, fill the
\* places left when fewer than 8 agents stand; no agent left out sorts
\* before a listed one other than the human; and the human's entry,
\* eliminated or not, is always there, in the 8th place when its rank is
\* beyond 8.
LeaderboardWithFallen ==
    /\ Len(Board) <= LeaderboardSize
    /\ Len(Board) = LeaderboardSize \/ Len(Board) = Cardinality(DOMAIN players)
    /\ \A i, j \in DOMAIN Board : i # j => Board[i].playerId # Board[j].playerId
    /\ \A i \in DOMAIN Board :
          /\ Board[i].playerId \in DOMAIN players
          /\ Board[i].score = currentScore(St, Board[i].playerId)
          /\ ~Standing(Board[i].playerId) => Board[i].score = 0
    /\ \A i, j \in DOMAIN Board : i < j => InOrder(Board[i], Board[j])
    /\ \A p \in DOMAIN players :
          (\A i \in DOMAIN Board : Board[i].playerId # p) =>
              \A i \in DOMAIN Board :
                  \/ Board[i].playerId = humanId
                  \/ InOrder(Board[i], [playerId |-> p, score |-> currentScore(St, p)])
    /\ humanId \in DOMAIN players =>
          \E i \in DOMAIN Board :
              /\ Board[i].playerId = humanId
              /\ Board[i].rank > LeaderboardSize => i = LeaderboardSize

\* the human, ranked ninth, holds the 8th place; an agent that fell after
\* the others is listed before them; two agents still stand
HumanKeptOnBoard ==
    /\ Len(Board) = LeaderboardSize
    /\ Board[LeaderboardSize].playerId = humanId
    /\ Board[LeaderboardSize].rank > LeaderboardSize
    /\ \E i \in DOMAIN Board :
          /\ ~Standing(Board[i].playerId)
          /\ players[Board[i].playerId].lastScoreTime > StartTime
    /\ \E i \in DOMAIN Board : Standing(Board[i].playerId)

Refused(uid, tile) ==
    \/ uid \notin DOMAIN units
    \/ units[uid].isDead
    \/ virtualTime - units[uid].lastMoveTime < getUnitCooldown(St, units[uid].type)
    \/ tile \notin getValidMoves(St, units[uid], virtualTime, FALSE)

\* C19: an issueCommand for an unknown or dead unit, for a unit on
\* cooldown or for a tile outside the unit's valid moves, and a buyUnit by
\* a player short of the price or onto an occupied tile, leave the whole
\* engine state (units, positionMap, players, coins, event queue) as it
\* was; buyUnit then returns null.
RejectedCommandsAreNoOps ==
    /\ \A uid \in DOMAIN units \cup {FreshId(St)}, tile \in Tiles :
          Refused(uid, tile) => issueCommand(St, <<uid>>, tile[1], tile[2]) = St
    /\ \A p \in DOMAIN players, type \in UnitTypes, tile \in Tiles :
          (players[p].credits < SHOP_PRICES(type) \/ MapHas(positionMap, tile)) =>
              /\ buyUnit(St, p, type, tile[1], tile[2]) = St
              /\ buyUnit_returns(St, p, type, tile[1], tile[2]) = NoId

\* a dead unit, a unit on cooldown with a tile it could go to otherwise,
\* and a player who can pay for a piece with occupied tiles to put it on
CommandsRefused ==
    /\ \E uid \in DOMAIN units : units[uid].isDead
    /\ \E uid \in LiveUnits :
          /\ virtualTime - units[uid].lastMoveTime < getUnitCooldown(St, units[uid].type)
          /\ \E tile \in getValidMoves(St, units[uid], virtualTime, FALSE) :
                issueCommand(St, <<uid>>, tile[1], tile[2]) = St
    /\ \E p \in DOMAIN players, type \in BuyTypes :
          /\ players[p].credits >= SHOP_PRICES(type)
          /\ players[p].credits < SHOP_PRICES("KING")
          /\ \E tile \in DOMAIN positionMap :
                buyUnit_returns(St, p, type, tile[1], tile[2]) = NoId

\* C20: a buyUnit call that returns an id has put the unit on a tile of
\* getValidSpawnTiles of the buyer as it was at the call (free, not Wall or
\* Water, next to a live unit of the buyer), and a call for any other tile
\* returns null and leaves the engine state as it was.
BuyUnitValidated ==
    \A p \in DOMAIN players, type \in BuyTypes, tile \in Tiles :
        LET t == buyUnit(St, p, type, tile[1], tile[2])
            id == buyUnit_returns(St, p, type, tile[1], tile[2])
        IN /\ id # NoId =>
                 /\ tile \in getValidSpawnTiles(St, p)
                 /\ t.units[id].x = tile[1] /\ t.units[id].y = tile[2]
           /\ tile \notin getValidSpawnTiles(St, p) => (id = NoId /\ t = St)

Waited == {Frame, 2 * Frame}

\* C21: while paused, a tick() leaves every field of the engine as it was,
\* however much wall time has passed; and the first tick after
\* setPaused(false) moves virtualTime on by the wall time since that call
\* times timeMultiplier, the time spent paused not counted.
PauseSemantics ==
    paused =>
        /\ \A wait \in Waited : tickNow(Later(St, wait)) = {Later(St, wait)}
        /\ \A wait \in Waited :
              LET resumed == setPaused(St, FALSE)
              IN \A t \in tickNow(Later(resumed, wait)) :
                    /\ t.virtualTime = virtualTime + wait * timeMultiplier
                    /\ t.lastRealTime = realNow + wait

\* paused for a frame or more after the clock had run, frames still coming
\* in, the speed above 1
LongPause ==
    /\ paused
    /\ realNow - lastRealTime >= Frame
    /\ timeMultiplier > 1
    /\ virtualTime > StartTime

Humans(s) == {p \in DOMAIN s.players : s.players[p].isHuman}
OneHuman(s) == Humans(s) = {s.humanId}

\* C22 as stated: after every match initialization (initGame in any game
\* mode, and initAttractMode) exactly one player is human, its id is
\* humanId, and every other player is autonomous.
ExactlyOneHuman ==
    /\ \A mode \in GameModes, h \in 1 .. StdPlayers : OneHuman(newGame(St, mode, h))
    /\ OneHuman(initAttractMode(St, SmallArmy))

\* C22: after every initGame in a game mode other than Sandbox exactly one
\* player is human, its id is humanId, and every other player is
\* autonomous; the Sandbox initialization and initAttractMode leave every
\* player autonomous.
ExactlyOneHumanOutsideSandbox ==
    /\ \A mode \in GameModes \ {"SANDBOX"}, h \in 1 .. StdPlayers :
          OneHuman(newGame(St, mode, h))
    /\ \A h \in 1 .. StdPlayers : Humans(newGame(St, "SANDBOX", h)) = {}
    /\ Humans(initAttractMode(St, SmallArmy)) = {}

\* a match just started in another mode than Standard, after an earlier one
\* had run for a while
FreshMatch ==
    /\ virtualTime > StartTime
    /\ gameMode \notin {"STANDARD", "SANDBOX"}
    /\ humanId \in DOMAIN players
    /\ \E h \in 1 .. StdPlayers : St = newGame(St, gameMode, h)

ListedModes == {"STANDARD", "BULLET", "DIPLOMACY", "ZOMBIES", "SANDBOX", "ADVENTURE"}

\* C23: a match initialization with a game mode outside Standard, Bullet,
\* Diplomacy, Zombies, Sandbox and Adventure starts no match: no players
\* and no units are created (the model has no error outcome to return, as
\* initGame has none).
UnknownModeStartsNoMatch ==
    \A mode \in GameModes \ ListedModes, h \in 1 .. StdPlayers :
        LET g == newGame(St, mode, h)
        IN DOMAIN g.players = {} /\ DOMAIN g.units = {}

\* the tiles whose index entry names a unit that is dead or not in the store
StaleTiles(s) ==
    {t \in DOMAIN s.positionMap :
        s.positionMap[t] \notin DOMAIN s.units \/ s.units[s.positionMap[t]].isDead}

\* every death and every removal deletes the index entry of the unit, so
\* the index never names a dead or missing unit
NoStaleEntry == StaleTiles(St) = {}

\* what one call of the engine can make of the state at hand: a tick, a
\* command of any unit to any tile, a resignation, an alliance or war call
Outcomes ==
    tick(St, Frame)
    \cup {resign(St)}
    \cup {issueCommand(St, <<uid>>, tile[1], tile[2]) : uid \in DOMAIN units, tile \in Tiles}
    \cup UNION {{formAlliance(St, a, b), declareWar(St, a, b), breakAlliance(St, a, b),
                 handleAllianceRequest(St, a, b, TRUE),
                 handleAllianceRequest(St, a, b, FALSE)} : a, b \in DOMAIN players}

\* C25: between match initialization and teardown the set of player ids in
\* the players map never changes: no tick, command, capture, elimination,
\* resignation, alliance or war operation adds or removes a player, and an
\* eliminated player stays in the map with its flag set.
PlayerSetFixed ==
    /\ [](\A t \in Outcomes : DOMAIN t.players = DOMAIN players)
    /\ [][DOMAIN players' = DOMAIN players]_vars

\* a player eliminated by a King capture, still in the map, with enemies
\* made by a declaration of war and an alliance standing beside it
EliminatedKept ==
    /\ \E p \in DOMAIN players : players[p].isEliminated /\ players[p].enemies # << >>
    /\ \E q \in DOMAIN players : players[q].allies # << >>

\* C27: after every call moveUnitInternal(unit, x, y, now) that a caller
\* makes (a live unit sent to one of its valid moves), whatever the outcome
\* (relocation, capture, mode-handled conversion, attack denied by
\* canAttack), unit.lastMoveTime equals now, and if the unit's owner is not
\* human the owner's lastActionTime equals now.
AlwaysStampsLastMoveTime ==
    \A uid \in LiveUnits :
        \A tile \in getValidMoves(St, units[uid], virtualTime, FALSE) :
            LET r == moveUnitInternal(St, uid, tile[1], tile[2], virtualTime)
                owner == units[uid].ownerId
            IN /\ r.units[uid].lastMoveTime = virtualTime
               /\ (owner \in DOMAIN players /\ ~players[owner].isHuman)
                     => r.players[owner].lastActionTime = virtualTime

Bots == {p \in DOMAIN players : ~players[p].isHuman /\ ~players[p].isEliminated}

\* the units of player p that an activation taking s to t has put on
\* another tile or created
Repositioned(s, t, p) ==
    {u \in DOMAIN t.units :
        /\ t.units[u].ownerId = p
        /\ \/ u \notin DOMAIN s.units
           \/ t.units[u].x # s.units[u].x
           \/ t.units[u].y # s.units[u].y}

\* the number of players of a full match
FullMatch == 100

\* C28: one executeBotTurn activation performs at most one of a
\* reinforcement purchase, a King relocation, a move or capture by one
\* unit, so at most one unit of the bot changes position or is created, and
\* no player slot is taken twice by the batch of one tick.
OneActionPerActivation ==
    /\ \A p \in Bots :
          \A t \in executeBotTurn(St, p, virtualTime) :
              /\ Cardinality(Repositioned(St, t, p)) <= 1
              /\ Cardinality(DOMAIN t.units \ DOMAIN units) <= 1
              /\ \A q \in DOMAIN players \ {p} : Repositioned(St, t, q) = {}
    /\ \A n \in 1 .. FullMatch :
          Cardinality({slotAt(aiUpdateIndex + i, n) : i \in 0 .. (batchSize(n) - 1)})
              = batchSize(n)

\* a bot that has captured, moved on and can now afford a reinforcement
\* next to a unit that is ready to move
BotCanBuyOrMove ==
    \E p \in Bots :
        /\ players[p].kills > 0
        /\ botPurchases(St, p, virtualTime) # {}
        /\ \E t \in executeBotTurn(St, p, virtualTime) :
              DOMAIN t.units = DOMAIN units /\ Repositioned(St, t, p) # {}

Least(a, b) == IF a < b THEN a ELSE b

\* C29: each unpaused tick takes ceil(N/5) consecutive player slots
\* starting where the previous tick stopped, so with N constant every
\* non-eliminated autonomous agent is activated at least once in any 5
\* consecutive unpaused ticks (it never has 5 idle ticks behind it), and
\* the human agent is never activated.
RoundRobinFairness ==
    /\ [](\A p \in Bots : players[p].idleTicks < 5)
    /\ [](\A n \in 1 .. FullMatch :
            {slotAt(aiUpdateIndex + i, n) : i \in 0 .. (5 * batchSize(n) - 1)}
                = 0 .. (n - 1))
    /\ [][virtualTime' # virtualTime =>
            /\ aiUpdateIndex' = slotAt(aiUpdateIndex + batchSize(Len(playerOrder)),
                                       Len(playerOrder))
            /\ humanId \in DOMAIN players =>
                  players'[humanId].idleTicks
                      = Least(players[humanId].idleTicks + 1, IdleCap)]_vars

\* five ticks on, a bot that acted in the first of them and has waited
\* four ticks for its slot to come round again, the human idle all along
WaitedFourTicks ==
    /\ virtualTime >= StartTime + 5 * Frame
    /\ \E p \in Bots : players[p].idleTicks = 4 /\ players[p].lastActionTime > 0
    /\ humanId \in DOMAIN players /\ players[humanId].idleTicks = IdleCap

PhaseFor(remaining) ==
    CASE remaining <= 20 -> "SUDDEN_DEATH"
      [] remaining \in 21 .. 40 -> "CONVERGENCE"
      [] remaining \in 41 .. 60 -> "HUNT"
      [] OTHER -> "CHAOS"

RulesFollow(phase, rules) ==
    /\ rules.infiniteVision <=> phase # "CHAOS"
    /\ rules.centerGravity <=> phase = "CONVERGENCE"
    /\ rules.totalWar <=> phase = "SUDDEN_DEATH"

\* C30: after every runDirectorAI the phase is SUDDEN_DEATH when at most 20
\* agents remain, CONVERGENCE for 21..40, HUNT for 41..60 and CHAOS above
\* 60, and the rule toggles follow from the phase alone (infiniteVision iff
\* not CHAOS, centerGravity iff CONVERGENCE, totalWar iff SUDDEN_DEATH).
DirectorPhaseByCount ==
    /\ [](LET t == runDirectorAI(St, virtualTime)
          IN /\ t.directorPhase = PhaseFor(playersRemaining(St))
             /\ RulesFollow(t.directorPhase, t.directorRules))
    /\ [][virtualTime' # virtualTime =>
            /\ directorPhase' = PhaseFor(playersRemaining(St))
            /\ RulesFollow(directorPhase', directorRules')]_vars

\* the twenty-first agent has fallen and the director has gone from
\* CONVERGENCE to SUDDEN_DEATH
SuddenDeathEntered ==
    /\ playersRemaining(St) = 20
    /\ \E p \in DOMAIN players : players[p].isEliminated /\ players[p].units # << >>
    /\ directorPhase = "SUDDEN_DEATH"
    /\ directorRules.totalWar /\ directorRules.infiniteVision

\* the captures open to the units at hand: a live unit, one of its valid
\* moves, and the live unit of another player that stands there
Captures ==
    {c \in LiveUnits \X Tiles :
        /\ c[2] \in getValidMoves(St, units[c[1]], virtualTime, FALSE)
        /\ MapGet(positionMap, c[2]) \in LiveUnits
        /\ units[MapGet(positionMap, c[2])].ownerId # units[c[1]].ownerId
        /\ units[c[1]].ownerId \in DOMAIN players}

\* C31: on a lethal capture the attacking owner's kills go up by 1, its
\* materialScore by the victim type's material value and its credits by the
\* victim type's shop price (a coin lying on the tile is picked up on top),
\* a King paying exactly 20 and 20 instead; the units that die in the
\* elimination cascade pay nothing to anyone; and afterwards the attacker's
\* peakMaterial is at least its materialScore.
KillRewardTransfer ==
    \A c \in Captures :
        LET victim == units[MapGet(positionMap, c[2])]
            killer == units[c[1]].ownerId
            r == moveUnitInternal(St, c[1], c[2][1], c[2][2], virtualTime)
            lethal == r.units[MapGet(positionMap, c[2])].isDead
            isKing == victim.type = "KING"
            coin == IF c[2] \in coins /\ killer # ZOMBIE_TEAM_ID THEN CoinValue ELSE 0
        IN lethal =>
             /\ r.players[killer].kills = players[killer].kills + 1
             /\ r.players[killer].materialScore = players[killer].materialScore
                    + (IF isKing THEN 20 ELSE MATERIAL_VALUES(victim.type))
             /\ r.players[killer].credits = players[killer].credits + coin
                    + (IF isKing THEN 20 ELSE SHOP_PRICES(victim.type))
             /\ r.players[killer].peakMaterial >= r.players[killer].materialScore
             /\ \A q \in DOMAIN players \ {killer} :
                   /\ r.players[q].kills = players[q].kills
                   /\ r.players[q].materialScore = players[q].materialScore
                   /\ r.players[q].credits = players[q].credits

\* a King taken for the bounty as the taker's only kill, while a pawn of
\* the fallen player lies dead: it died in the cascade and paid nothing
BountyAndCascade ==
    \E p, q \in DOMAIN players :
        /\ p # q
        /\ players[p].kingsKilled = 1 /\ players[p].kills = 1
        /\ players[p].credits = KingBounty
        /\ players[p].peakMaterial = players[p].materialScore
        /\ players[q].isEliminated
        /\ \E u \in DOMAIN units :
              units[u].ownerId = q /\ units[u].isDead /\ units[u].type = "PAWN"

\* the sandbox editor before Play is pressed, or after Pause
Editing == gameMode = "SANDBOX" /\ ~isSimulationRunning

\* what is on the board and what the players hold
BoardOf(s) == <<s.units, s.positionMap, s.players, s.coins, s.playerOrder>>

\* while editing the engine is paused and a frame of any length leaves the
\* board and the clock alone; the brush, the eraser and Clear act at once,
\* whatever the pause, the credits and the cooldowns
EditorFrozen ==
    Editing =>
      /\ paused
      /\ \A wait \in {Frame, 2 * Frame} : \A t \in tickNow(Later(St, wait)) :
            BoardOf(t) = BoardOf(St) /\ t.virtualTime = virtualTime
      /\ \A p \in DOMAIN players, type \in SpawnTypes, tile \in BrushTiles :
            LET r == spawnUnitRaw(St, tile[1], tile[2], type, p)
                id == MapGet(r.positionMap, tile)
            IN /\ id \in DOMAIN r.units
               /\ id \notin DOMAIN units
               /\ r.units[id] = NewUnit(p, type, tile[1], tile[2], 0)
               /\ id \in Elems(r.players[p].units)
               /\ r.players[p].credits = players[p].credits
      /\ \A tile \in BrushTiles :
            LET r == removeUnitAt(St, tile[1], tile[2])
            IN /\ MapGet(r.positionMap, tile) = NoId
               /\ \A id \in DOMAIN r.units :
                     ~r.units[id].isDead => Key(r.units[id].x, r.units[id].y) # tile
      /\ clearMap(St).units = << >> /\ clearMap(St).positionMap = << >>

\* a step taken while editing changes the board, if at all, as one of the
\* three editor commands changes it
EditorStep ==
    (Editing /\ Editing') =>
        \/ BoardOf(St)' = BoardOf(St)
        \/ \E p \in DOMAIN players, type \in SpawnTypes, tile \in BrushTiles :
              BoardOf(St)' = BoardOf(spawnUnitRaw(St, tile[1], tile[2], type, p))
        \/ \E tile \in BrushTiles : BoardOf(St)' = BoardOf(removeUnitAt(St, tile[1], tile[2]))
        \/ BoardOf(St)' = BoardOf(clearMap(St))

\* C32: the sandbox editor is frozen by default: after the Sandbox
\* initialization the engine is paused with isSimulationRunning false, until
\* the simulation is toggled on no tick moves, captures, buys or eliminates
\* anything, and the only changes are those of the paint, erase and clear
\* commands, which act at once regardless of pause, credits and cooldown.
SandboxFrozenByDefault == []EditorFrozen /\ [][EditorStep]_vars

\* the editor, frames gone by, with a King next to a unit of another team
\* that it would take if the bots were run
FrozenStandoff ==
    /\ Editing /\ paused
    /\ realNow > StartTime
    /\ \E a, b \in LiveUnits :
          /\ units[a].type = "KING" /\ units[b].ownerId # units[a].ownerId
          /\ Key(units[b].x, units[b].y) \in getValidMoves(St, units[a], virtualTime, FALSE)
          /\ players[units[a].ownerId].credits = 0

\* C33: credits never go negative: every player's credits are >= 0 in every
\* reachable state, and a successful buyUnit lowers the buyer's credits by
\* exactly SHOP_PRICES[type] and changes no other player's credits.
CreditsNeverNegative ==
    /\ \A p \in DOMAIN players : players[p].credits >= 0
    /\ \A p \in DOMAIN players, type \in BuyTypes, tile \in Tiles :
          LET r == buyUnit(St, p, type, tile[1], tile[2])
          IN buyUnit_returns(St, p, type, tile[1], tile[2]) # NoId =>
               /\ r.players[p].credits = players[p].credits - SHOP_PRICES(type)
               /\ r.players[p].credits >= 0
               /\ \A q \in DOMAIN players \ {p} : r.players[q].credits = players[q].credits

\* a player that took a pawn has spent the reward on a pawn of its own
RewardSpent ==
    \E p \in DOMAIN players :
        /\ players[p].kills = 1 /\ players[p].kingsKilled = 0
        /\ players[p].credits = 0
        /\ \E i \in DOMAIN players[p].units :
              LET id == players[p].units[i]
              IN /\ id \in DOMAIN units
                 /\ units[id].lastMoveTime > 0
                 /\ Len(players[p].units) = Len(SmallArmy) + 1

\* the place of a phase in the order CHAOS, HUNT, CONVERGENCE, SUDDEN_DEATH
PhaseRank(phase) ==
    CASE phase = "CHAOS" -> 0
      [] phase = "HUNT" -> 1
      [] phase = "CONVERGENCE" -> 2
      [] phase = "SUDDEN_DEATH" -> 3

\* no step of a match brings an eliminated player back, so the count of
\* players remaining does not rise, and the phase runDirectorAI sets after
\* the step is not before the one it sets before the step
NoWayBack ==
    /\ \A p \in DOMAIN players :
          players[p].isEliminated => p \in DOMAIN players' /\ players'[p].isEliminated
    /\ playersRemaining(St)' <= playersRemaining(St)
    /\ PhaseRank(runDirectorAI(St, virtualTime).directorPhase)' >=
          PhaseRank(runDirectorAI(St, virtualTime).directorPhase)
    /\ virtualTime > StartTime => PhaseRank(directorPhase') >= PhaseRank(directorPhase)

\* C34: elimination is irreversible and pacing only escalates: within a
\* match no operation resets isEliminated from true to false, so
\* playersRemaining is non-increasing and the director phase observed after
\* successive runDirectorAI calls never moves backwards in the order CHAOS,
\* HUNT, CONVERGENCE, SUDDEN_DEATH.
EliminationIrreversible == [][NoWayBack]_vars

\* the sixty-first agent has fallen in play and the director has gone from
\* CHAOS to HUNT
HuntEntered ==
    /\ playersRemaining(St) = 60
    /\ directorPhase = "HUNT"
    /\ virtualTime > StartTime
    /\ \E p \in DOMAIN players : players[p].isEliminated /\ players[p].units # << >>

\* how often an id is listed in a roster
Listings(roster, id) == Cardinality({i \in DOMAIN roster : roster[i] = id})

\* C35: each live unit is listed in the units roster of exactly one player,
\* the player named by its ownerId, and every roster entry that refers to a
\* stored unit refers to a unit whose ownerId is that player; purchases,
\* zombie conversion, sandbox paint and erase and captures keep it so.
RosterOwnership ==
    /\ \A id \in LiveUnits :
          /\ units[id].ownerId \in DOMAIN players
          /\ \A p \in DOMAIN players :
                Listings(players[p].units, id) = IF p = units[id].ownerId THEN 1 ELSE 0
    /\ \A p \in DOMAIN players : \A i \in DOMAIN players[p].units :
          players[p].units[i] \in DOMAIN units =>
              units[players[p].units[i]].ownerId = p

\* a converted unit stands on the zombie roster next to a painted one, a
\* bought unit on its buyer's, and a capture has been made
RostersAfterConversion ==
    /\ \E id \in LiveUnits :
          /\ units[id].isZombie
          /\ Listings(players[ZOMBIE_TEAM_ID].units, id) = 1
    /\ Len(players[ZOMBIE_TEAM_ID].units) >= 2

\* C36: an eliminated agent owns no live unit: every player with
\* isEliminated set has no unit with isDead false and ownerId equal to that
\* player, and none of its units can be moved by issueCommand.
EliminatedOwnsNoLiveUnit ==
    \A p \in DOMAIN players : players[p].isEliminated =>
        /\ \A id \in LiveUnits : units[id].ownerId # p
        /\ \A id \in DOMAIN units : units[id].ownerId = p =>
              \A tile \in Tiles :
                  BoardOf(issueCommand(St, <<id>>, tile[1], tile[2])) = BoardOf(St)

\* the pack of a player in a state: the player and its allies
PackIn(s, p) == {p} \cup Elems(s.players[p].allies)

BreakAllianceEndsIt ==
    gameMode = "DIPLOMACY" =>
      \A a, b \in DOMAIN players :
        (/\ a # b
         /\ b \in Allies(a) /\ a \in Allies(b)
         /\ ~players[a].isEliminated /\ ~players[b].isEliminated
         /\ ~FartherThanThreshold(St, a, b)) =>
            LET r == breakAlliance(St, a, b)
            IN /\ ~Includes(r.players[a].allies, b)
               /\ ~Includes(r.players[b].allies, a)
               /\ Includes(r.players[a].enemies, b)
               /\ Includes(r.players[b].enemies, a)
               /\ r.peaceTimer = 0 =>
                     \A u, v \in LiveUnits :
                         (units[u].ownerId = a /\ units[v].ownerId = b) =>
                             canAttack(r, r.units[u], r.units[v])

\* what is left of the armistice after `elapsed` of virtual time
ArmisticeLeft(elapsed) == IF elapsed >= 30000 THEN 0 ELSE 30000 - elapsed

\* the timer is what the virtual time gone by leaves of 30000, so it starts
\* at 30000, is never negative, and is 0 once 30000 have gone by
ArmisticeClock ==
    gameMode = "DIPLOMACY" =>
        /\ peaceTimer = ArmisticeLeft(virtualTime - StartTime)
        /\ peaceTimer >= 0
        /\ \A wait \in {1, Frame, PEACE_DURATION} :
              \A t \in tickNow(Later(St, wait)) :
                  IF paused THEN t.peaceTimer = peaceTimer
                  ELSE /\ t.peaceTimer <= peaceTimer
                       /\ peaceTimer > 0 => t.peaceTimer < peaceTimer
                       /\ t.peaceTimer >= 0

\* a step never raises the timer, lowers it when virtual time goes by and
\* some is left, leaves it alone while the engine stays paused, and leaves
\* it at 0 once it is 0
ArmisticeStep ==
    gameMode = "DIPLOMACY" =>
        /\ peaceTimer' <= peaceTimer
        /\ (virtualTime' > virtualTime /\ peaceTimer > 0) => peaceTimer' < peaceTimer
        /\ (paused /\ paused') => peaceTimer' = peaceTimer /\ virtualTime' = virtualTime
        /\ peaceTimer = 0 => peaceTimer' = 0

\* C39: the armistice ends and never returns: in Diplomacy mode peaceTimer
\* starts at 30000, is non-increasing and never negative across ticks,
\* reaches 0 after finitely many unpaused ticks with positive elapsed time
\* (it is 0 as soon as they add up to 30000), stays frozen while the engine
\* is paused, and once 0 stays 0 for the rest of the match.
ArmisticeEndsForGood == []ArmisticeClock /\ [][ArmisticeStep]_vars

\* the armistice has run out in a match that was paused for a while and
\* has gone on since
ArmisticeRunOut ==
    /\ gameMode = "DIPLOMACY" /\ peaceTimer = 0
    /\ virtualTime > StartTime + PEACE_DURATION
    /\ realNow - StartTime > virtualTime - StartTime

=============================================================================
